---- MODULE Spec2Model ----
(***************************************************************************)
(* A model of the plex_tools scripts:                                       *)
(*   migrate_access/sync_plex_shares_by_library_name.py  (share sync)       *)
(*   migrate_playlists/migrate_plex.py   (index, matcher, batched mutator)  *)
(* Each subsystem has its own variables and its own specification; a        *)
(* specification leaves the other subsystems' variables at their idle       *)
(* values.                                                                  *)
(***************************************************************************)
EXTENDS Integers, Sequences, FiniteSets, TLC

VARIABLES
    \* ---- share sync (sync_plex_shares_by_library_name.py) ----
    sh_pc,            \* position of main(): "idle", "users", "done"; "reconcile"/"reconciled" for the pure reconciler
    apply,            \* args.apply
    destSections,     \* titles of the destination's libraries, in listing order
    srcShare,         \* user -> the user's share on the source server
    destShare,        \* user -> the user's share on the destination server
    ui,               \* index of the user the loop of main() is at
    run,              \* number of the current run of the script
    total_changed,    \* main(): total_changed
    total_added,      \* main(): total_added
    current_titles,   \* the reconciler alone: current_titles
    desired_titles,   \* ... desired_titles
    final_titles,     \* ... final_titles
    to_add,           \* ... to_add
    lastUpdate,       \* the last updateFriend call: user, sections sent, sections shared before it
    planned,          \* user -> to_add computed for the user in this run
    called,           \* users for whom updateFriend was called in this run
    updated,          \* users for whom updateFriend succeeded in this run
    updatedPrev,      \* users for whom updateFriend succeeded in the previous run
    readFailed,       \* users for whom a read of the shares has failed, in any run
    \* ---- destination index and matcher (migrate_plex.py) ----
    m_pc,             \* "idle", "index" (build_destination_index walks), "indexed", "matched"
    by_guid,          \* DestIndex.by_guid: lower-cased identifier -> destination item (its ratingKey)
    count_items,      \* DestIndex.count_items
    registered,       \* the pairs <<identifier as the server gives it, item>> of the items walked
    src_guids,        \* the identifiers of the source item being matched, as the server gives them
    matched,          \* the destination item matched, or None
    site,             \* the loop that matched: "playlists", "collections", "metadata"
    added,            \* what the loop appended to its list of destination items for the source item
    missing,          \* what the loop added to its count of missing items for the source item
    \* ---- destination playlists and create_playlist_with_batches (migrate_plex.py) ----
    playlists,        \* the destination's playlists, in listing order: [title, items]
    playlists0,       \* the destination's playlists before the first run
    dedup,            \* the server ignores the add of an item the playlist already holds
    faults,           \* how many more calls to the servers may fail
    crashes,          \* how many more times the process may be interrupted
    cpb_pc,           \* position of create_playlist_with_batches
    caller,           \* who called it: "top" (called alone) or "migrate" (migrate_playlists)
    name,             \* its argument name
    items,            \* its argument items (ratingKeys)
    replace,          \* its argument replace
    batch_size,       \* its argument batch_size
    existing,         \* its local existing: a playlist (index into playlists) or None
    pl,               \* the playlist the chunks are added to
    lst,              \* the list being chunked: rest (new playlist) or items (existing one)
    ci,               \* index of the next chunk of chunks(lst, batch_size)
    fi,               \* index, in the chunk, of the next item of the single-item fallback
    calls,            \* the calls of this run of the function that carry items, in order
    del_at,           \* how many of them were made when existing.delete() was called, or -1
    \* ---- migrate_playlists (migrate_plex.py) ----
    mp_pc,            \* position of migrate_playlists
    srcPlaylists,     \* playlists = src.playlists()
    include,          \* the include pattern: whether given, and the titles it matches
    exclude,          \* the exclude pattern, likewise
    materialize_smart,
    rename_template,
    dry_run,
    mrun,             \* which run of the migration this is
    pli,              \* index of the playlist the loop is at
    migrated,         \* its counter migrated
    outcomes,         \* what became of each playlist visited in this run, in order
    \* ---- the list handed to the write path (migrate_plex.py) ----
    d_pc,             \* position of the matching and deduplication loops
    d_site,           \* whose loops ran: "playlists" or "collections"
    d_src,            \* the items of the source playlist or collection
    handed,           \* dest_keys (playlist) or the ratingKeys of dest_items (collection)
    \* ---- migrate_collections (migrate_plex.py) ----
    mc_pc,            \* position of migrate_collections
    tagged,           \* the destination's collection tags: pairs <<collection name, item>>
    tagged0,          \* the destination's collection tags before the run
    srcSections,      \* src.library.sections(), each with its collections
    c_filter,         \* its arguments include, exclude and rename_template
    c_replace,        \* its argument replace
    c_dry_run,        \* its argument dry_run
    c_faults,         \* how many more calls to the servers may fail
    si,               \* index of the source section the loop is at
    cj,               \* index of the collection the inner loop is at, 0 before the listing
    c_dest_name,      \* its local dest_name
    c_dest_items,     \* its local dest_items (ratingKeys)
    c_migrated,       \* its counter migrated
    c_outcomes,       \* what became of each collection visited, in order: <<title, outcome>>
    c_writes,         \* the tag calls issued for the collection at hand, in order
    \* ---- sync_metadata (migrate_plex.py) ----
    sm_pc,            \* position of sync_metadata
    smSections,       \* the movie and show sections of the source, each with its items
    destMeta,         \* the field values of the destination items
    destMeta0,        \* the field values of the destination items before the run
    locked,           \* the locked fields of the destination: pairs <<item, field>>
    sm_fields,        \* its argument fields
    sm_artwork,       \* its argument artwork
    sm_lock,          \* its argument lock_fields
    sm_filter,        \* its arguments include and exclude
    sm_dry_run,       \* its argument dry_run
    sm_faults,        \* how many more calls to the servers may fail
    sm_si,            \* index of the section the loop is at
    sm_ii,            \* index of the item the inner loop is at, 0 before s.all()
    scanned,          \* its counter scanned
    changed,          \* its counter changed
    sm_writes,        \* the mutating calls issued for the item at hand, in order
    \* ---- build_destination_index, section by section (migrate_plex.py) ----
    ix_pc,            \* position of build_destination_index
    ixSections,       \* the sections of the destination, each with its items or shows
    ix_si,            \* the section the build is at
    ix_hi,            \* the show of that section the build is at; 0 between sections
    ix_by_guid,       \* idx.by_guid
    ix_count,         \* idx.count_items
    ix_failed,        \* the sections <<s, 0>> and shows <<s, h>> whose enumeration failed
    ix_faults,        \* the enumeration failures still to come
    \* ---- find_sd_in_plex_library.py ----
    fs_pc,            \* position of main(): "idle", "scan" (find_sd_items), "rows", "listed"
    fsSection,        \* the section scanned: its type and its movies or shows
    threshold,        \* args.threshold, the min_hd_height of find_sd_items
    fs_i,             \* the movie or show find_sd_items is at
    examined,         \* the items item_max_height was called for, in order
    rows,             \* the rows find_sd_items has yielded
    out_paths,        \* the list of file paths main() builds from the rows
    fs_faults,        \* the show.episodes() failures still to come
    \* ---- load_account (sync_plex_shares_by_library_name.py) ----
    la_pc,            \* position of load_account: "idle", "start", "prompt", "returned", "raised"
    la_env,           \* what the environment and the arguments give: token, credentials, preset code, non_interactive
    la_branch,        \* the handler the prompts are made in: "unauthorized" or "badrequest"
    attempt,          \* the attempt the loop of prompts is at
    prompts,          \* the prompts made
    la_log,           \* the entries at the prompts and the outcomes of the sign-ins, in order
    la_error,         \* the error load_account raised
    \* ---- the way the three scripts end ----
    ex_pc,            \* the stage a script is at: "idle", "credentials", "connect", "target", "work", "output", "exited"
    script,           \* the script that runs: "find_sd", "migrate", "share_sync"
    csv,              \* whether the script was asked to write a file (--csv)
    ex_run,           \* the number of the run
    ex_outcome,       \* the outcome the run ended with
    status,           \* the exit status of the run that ended
    exits,            \* the pairs <<script, outcome, status>> of the runs that ended
    \* ---- delete_paths of the SD finder ----
    dp_pc,            \* position of delete_paths: "idle", "loop", "returned"
    dp_paths,         \* the list of paths handed to delete_paths
    no_confirm,       \* whether confirmation is suppressed (--no-confirm)
    dp_i,             \* index of the next path of the loop
    disk0,            \* the files that existed when delete_paths was called
    disk,             \* the files that exist
    deleted,          \* the count delete_paths keeps and returns
    asked,            \* the prompts made: records [i, p, inp] (index, path, what the user entered)
    removed,          \* the calls of os.remove that went through: records [i, p]
    \* ---- _coerce_to_media over items of any shape ----
    co_pc,            \* position of _coerce_to_media: "idle", "loop", "returned"
    co_items,         \* its argument items
    co_i,             \* index of the next item of the loop
    co_out,           \* its local out
    co_warnings,      \* the number of warnings printed
    co_failed         \* the positions of the items whose fetchItem raised

shareVars == <<sh_pc, apply, destSections, srcShare, destShare, ui, run,
               total_changed, total_added, current_titles, desired_titles,
               final_titles, to_add, lastUpdate, planned, called, updated,
               updatedPrev, readFailed>>

matchVars == <<m_pc, by_guid, count_items, registered, src_guids, matched,
               site, added, missing>>

cpbVars == <<playlists, playlists0, dedup, faults, crashes, cpb_pc, caller,
             name, items, replace, batch_size, existing, pl, lst, ci, fi, calls,
             del_at>>

mpVars == <<mp_pc, srcPlaylists, include, exclude, materialize_smart,
            rename_template, dry_run, mrun, pli, migrated, outcomes>>

ddVars == <<d_pc, d_site, d_src, handed>>

mcVars == <<mc_pc, tagged, tagged0, srcSections, c_filter, c_replace, c_dry_run,
            c_faults, si, cj, c_dest_name, c_dest_items, c_migrated, c_outcomes,
            c_writes>>

smVars == <<sm_pc, smSections, destMeta, destMeta0, locked, sm_fields, sm_artwork,
            sm_lock, sm_filter, sm_dry_run, sm_faults, sm_si, sm_ii, scanned,
            changed, sm_writes>>

ixVars == <<ix_pc, ixSections, ix_si, ix_hi, ix_by_guid, ix_count, ix_failed, ix_faults>>

fsVars == <<fs_pc, fsSection, threshold, fs_i, examined, rows, out_paths, fs_faults>>

laVars == <<la_pc, la_env, la_branch, attempt, prompts, la_log, la_error>>

exVars == <<ex_pc, script, csv, ex_run, ex_outcome, status, exits>>

dpVars == <<dp_pc, dp_paths, no_confirm, dp_i, disk0, disk, deleted, asked, removed>>

coVars == <<co_pc, co_items, co_i, co_out, co_warnings, co_failed>>

vars == <<shareVars, matchVars, cpbVars, mpVars, ddVars, mcVars, smVars, ixVars, fsVars, laVars, exVars, dpVars, coVars>>

\* What a step of one subsystem leaves alone: the other subsystems.
ShareFrame == UNCHANGED <<matchVars, cpbVars, mpVars, ddVars, mcVars, smVars, ixVars, fsVars, laVars, exVars, dpVars, coVars>>
MatchFrame == UNCHANGED <<shareVars, cpbVars, mpVars, ddVars, mcVars, smVars, ixVars, fsVars, laVars, exVars, dpVars, coVars>>
CpbFrame == UNCHANGED <<shareVars, matchVars, mpVars, ddVars, mcVars, smVars, ixVars, fsVars, laVars, exVars, dpVars, coVars>>
MpFrame == UNCHANGED <<shareVars, matchVars, ddVars, mcVars, smVars, ixVars, fsVars, laVars, exVars, dpVars, coVars>>
DedupeFrame == UNCHANGED <<shareVars, matchVars, cpbVars, mpVars, mcVars, smVars, ixVars, fsVars, laVars, exVars, dpVars, coVars>>
McFrame == UNCHANGED <<shareVars, matchVars, cpbVars, mpVars, ddVars, smVars, ixVars, fsVars, laVars, exVars, dpVars, coVars>>
SmFrame == UNCHANGED <<shareVars, matchVars, cpbVars, mpVars, ddVars, mcVars, ixVars, fsVars, laVars, exVars, dpVars, coVars>>
IxFrame == UNCHANGED <<shareVars, matchVars, cpbVars, mpVars, ddVars, mcVars, smVars, fsVars, laVars, exVars, dpVars, coVars>>
FsFrame == UNCHANGED <<shareVars, matchVars, cpbVars, mpVars, ddVars, mcVars, smVars, ixVars, laVars, exVars, dpVars, coVars>>
LaFrame == UNCHANGED <<shareVars, matchVars, cpbVars, mpVars, ddVars, mcVars, smVars, ixVars, fsVars, exVars, dpVars, coVars>>
ExFrame == UNCHANGED <<shareVars, matchVars, cpbVars, mpVars, ddVars, mcVars, smVars, ixVars, fsVars, laVars, dpVars, coVars>>
DpFrame == UNCHANGED <<shareVars, matchVars, cpbVars, mpVars, ddVars, mcVars, smVars, ixVars, fsVars, laVars, exVars, coVars>>
CoFrame == UNCHANGED <<shareVars, matchVars, cpbVars, mpVars, ddVars, mcVars, smVars, ixVars, fsVars, laVars, exVars, dpVars>>

\* ------------------------------------------------------------------ bounds
NUsers == 2
MaxRuns == 2
MaxDestItems == 2
MaxItems == 4
MaxBatch == 2
MaxFaults == 2
MaxCrashes == 1
MaxLoopFaults == 1
MaxSrcItems == 3
MaxCollFaults == 2
MaxMetaFaults == 1
MaxIndexFaults == 2
MaxScanItems == 2
MaxScanFaults == 1
MaxExitRuns == 2
MaxPaths == 2
MaxCoerce == 3

\* ------------------------------------------------------------- share sync
Users == 1..NUsers

\* Library titles. Two of them are equal up to case.
Titles == {"Movies", "movies", "TV", "Music"}

\* str.casefold() on the titles of the model.
casefold(t) ==
    CASE t = "Movies" -> "movies"
      [] t = "TV" -> "tv"
      [] t = "Music" -> "music"
      [] OTHER -> t

\* The source server's libraries, in listing order.
SrcSections == <<"movies", "TV">>

\* The destinations the model runs against.
DestCatalogs ==
    { <<"Movies", "TV">>, <<"Movies", "movies">>, <<"TV">> }

\* A user's share on a server: all libraries, or a set of sections (indices
\* into the server's section list). No share at all: no section.
NoShare == [all |-> FALSE, secs |-> {}]

ShareValues(sections) ==
    {[all |-> TRUE, secs |-> {}]}
        \cup {[all |-> FALSE, secs |-> S] : S \in SUBSET (DOMAIN sections)}

\* The sections of the server a share gives access to.
ActualSections(share, sections) ==
    IF share.all THEN DOMAIN sections ELSE share.secs

MaxOf(S) == CHOOSE x \in S : \A y \in S : y <= x

\* sections_by_title: casefolded title -> section; a later section of the same
\* casefolded title overwrites the earlier one.
sections_by_title(sections) ==
    [k \in {casefold(sections[i]) : i \in DOMAIN sections} |->
        MaxOf({i \in DOMAIN sections : casefold(sections[i]) = k})]

\* friend_shared_sections_titles: the titles of the sections the user has on the
\* server; the empty set when the user has no share there and when reading the
\* share raises (the exception is caught and a warning printed).
friend_shared_sections_titles(share, sections, readOk) ==
    IF ~readOk THEN {}
    ELSE IF share = NoShare THEN {}
    ELSE IF share.all THEN {sections[i] : i \in DOMAIN sections}
    ELSE {sections[i] : i \in share.secs}

\* ensure_union_share_on_destination, line 243
desired_titles_existing(desired, by_title) ==
    {t \in desired : casefold(t) \in DOMAIN by_title}

\* A reconciler that forgets the current shares.
FinalTitles_desiredOnly(current, desired, by_title) ==
    desired_titles_existing(desired, by_title)

\* ensure_union_share_on_destination, line 244
FinalTitles(current, desired, by_title) ==
    current \cup desired_titles_existing(desired, by_title)

\* ensure_union_share_on_destination, line 246 (as a set; the code sorts it)
ToAdd(final, current) == final \ current

\* ensure_union_share_on_destination, lines 252-259: the sections sent
final_sections(final, by_title) ==
    {by_title[casefold(t)] : t \in {x \in final : casefold(x) \in DOMAIN by_title}}

NoUpdate == [user |-> 0, sent |-> {}, before |-> {}]

ShareIdle ==
    /\ sh_pc = "idle" /\ apply = FALSE /\ destSections = <<>>
    /\ srcShare = <<>> /\ destShare = <<>> /\ ui = 0 /\ run = 0
    /\ total_changed = 0 /\ total_added = 0
    /\ current_titles = {} /\ desired_titles = {} /\ final_titles = {}
    /\ to_add = {} /\ lastUpdate = NoUpdate /\ planned = <<>>
    /\ called = {} /\ updated = {} /\ updatedPrev = {} /\ readFailed = {}

\* No destination item.
None == 0

MatchIdle ==
    /\ m_pc = "idle" /\ by_guid = <<>> /\ count_items = 0 /\ registered = {}
    /\ src_guids = <<>> /\ matched = None /\ site = "" /\ added = <<>>
    /\ missing = 0

CpbIdle ==
    /\ playlists = <<>> /\ playlists0 = <<>> /\ dedup = FALSE /\ faults = 0
    /\ crashes = 0 /\ cpb_pc = "idle" /\ caller = "" /\ name = ""
    /\ items = <<>> /\ replace = FALSE /\ batch_size = 0 /\ existing = None
    /\ pl = None /\ lst = <<>> /\ ci = 0 /\ fi = 0 /\ calls = <<>>
    /\ del_at = -1

\* A pattern argument: whether it was given, and the titles it matches.
NoPattern == [given |-> FALSE, titles |-> {}]
Pattern(ts) == [given |-> TRUE, titles |-> ts]

MpIdle ==
    /\ mp_pc = "idle" /\ srcPlaylists = <<>>
    /\ include = NoPattern /\ exclude = NoPattern
    /\ materialize_smart = FALSE /\ rename_template = "" /\ dry_run = FALSE
    /\ mrun = 0 /\ pli = 0 /\ migrated = 0 /\ outcomes = <<>>

DedupeIdle ==
    /\ d_pc = "idle" /\ d_site = "" /\ d_src = <<>> /\ handed = <<>>

McIdle ==
    /\ mc_pc = "idle" /\ tagged = {} /\ tagged0 = {} /\ srcSections = <<>>
    /\ c_filter = [include |-> NoPattern, exclude |-> NoPattern, template |-> ""]
    /\ c_replace = FALSE /\ c_dry_run = FALSE /\ c_faults = 0 /\ si = 0 /\ cj = 0
    /\ c_dest_name = "" /\ c_dest_items = <<>> /\ c_migrated = 0
    /\ c_outcomes = <<>>
    /\ c_writes = <<>>

SmIdle ==
    /\ sm_pc = "idle" /\ smSections = <<>> /\ destMeta = <<>> /\ destMeta0 = <<>>
    /\ locked = {} /\ sm_fields = <<>> /\ sm_artwork = FALSE /\ sm_lock = FALSE
    /\ sm_filter = [include |-> NoPattern, exclude |-> NoPattern, template |-> ""]
    /\ sm_dry_run = FALSE /\ sm_faults = 0 /\ sm_si = 0 /\ sm_ii = 0
    /\ scanned = 0 /\ changed = 0 /\ sm_writes = <<>>

IxIdle ==
    /\ ix_pc = "idle" /\ ixSections = <<>> /\ ix_si = 0 /\ ix_hi = 0
    /\ ix_by_guid = <<>> /\ ix_count = 0 /\ ix_failed = {} /\ ix_faults = 0

FsIdle ==
    /\ fs_pc = "idle" /\ fsSection = <<>> /\ threshold = 0 /\ fs_i = 0
    /\ examined = <<>> /\ rows = <<>> /\ out_paths = <<>> /\ fs_faults = 0

LaIdle ==
    /\ la_pc = "idle" /\ la_env = <<>> /\ la_branch = "" /\ attempt = 0
    /\ prompts = 0 /\ la_log = <<>> /\ la_error = ""

ExIdle ==
    /\ ex_pc = "idle" /\ script = "" /\ csv = FALSE /\ ex_run = 0
    /\ ex_outcome = "" /\ status = 0 /\ exits = {}

DpIdle ==
    /\ dp_pc = "idle" /\ dp_paths = <<>> /\ no_confirm = FALSE /\ dp_i = 0
    /\ disk0 = {} /\ disk = {} /\ deleted = 0 /\ asked = {} /\ removed = {}

CoIdle ==
    /\ co_pc = "idle" /\ co_items = <<>> /\ co_i = 0 /\ co_out = <<>>
    /\ co_warnings = 0 /\ co_failed = {}

\* The state main() is in when it enters its loop over the users.
ShareInit ==
    /\ MatchIdle /\ CpbIdle /\ MpIdle /\ DedupeIdle /\ McIdle /\ SmIdle /\ IxIdle /\ FsIdle /\ LaIdle /\ ExIdle /\ DpIdle /\ CoIdle
    /\ sh_pc = "users"
    /\ apply \in BOOLEAN
    /\ destSections \in DestCatalogs
    /\ srcShare \in [Users -> ShareValues(SrcSections)]
    /\ destShare \in [Users -> ShareValues(destSections)]
    /\ ui = 1 /\ run = 1
    /\ total_changed = 0 /\ total_added = 0
    /\ current_titles = {} /\ desired_titles = {} /\ final_titles = {}
    /\ to_add = {} /\ lastUpdate = NoUpdate
    /\ planned = [u \in Users |-> {}]
    /\ called = {} /\ updated = {} /\ updatedPrev = {} /\ readFailed = {}

\* One iteration of the loop of main() over the users (lines 348-379), with the
\* call of ensure_union_share_on_destination (lines 226-275) it makes.
\* srcOk, dstOk: the reads of the user's shares succeed; updOk: updateFriend does.
MainUser(srcOk, dstOk, updOk) ==
    /\ sh_pc = "users" /\ ui <= NUsers
    /\ LET u == ui
           by_title == sections_by_title(destSections)
           src_titles == friend_shared_sections_titles(srcShare[u], SrcSections, srcOk)
           desired == {t \in src_titles : casefold(t) \in DOMAIN by_title}
           current == friend_shared_sections_titles(destShare[u], destSections, dstOk)
           final == FinalTitles(current, desired, by_title)
           add == ToAdd(final, current)
           secs == final_sections(final, by_title)
       IN  /\ ui' = ui + 1
           /\ IF src_titles = {} \/ desired = {}
              THEN \* lines 356-366: nothing on the source, or nothing that matches
                   /\ readFailed' = IF srcOk THEN readFailed ELSE readFailed \cup {u}
                   /\ UNCHANGED <<destShare, total_changed, total_added,
                                  lastUpdate, planned, called, updated>>
              ELSE /\ planned' = [planned EXCEPT ![u] = add]
                   /\ readFailed' = IF srcOk /\ dstOk THEN readFailed
                                    ELSE readFailed \cup {u}
                   /\ IF add = {}
                      THEN \* lines 247-250
                           UNCHANGED <<destShare, total_changed, total_added,
                                       lastUpdate, called, updated>>
                      ELSE IF ~apply
                      THEN \* dry run: counted as changed, nothing sent
                           /\ total_changed' = total_changed + 1
                           /\ total_added' = total_added + Cardinality(add)
                           /\ UNCHANGED <<destShare, lastUpdate, called, updated>>
                      ELSE \* lines 266-273: updateFriend sets the complete list
                           /\ called' = called \cup {u}
                           /\ lastUpdate' =
                                [user |-> u, sent |-> secs,
                                 before |-> ActualSections(destShare[u], destSections)]
                           /\ IF updOk
                              THEN /\ destShare' = [destShare EXCEPT
                                         ![u] = [all |-> FALSE, secs |-> secs]]
                                   /\ updated' = updated \cup {u}
                                   /\ total_changed' = total_changed + 1
                                   /\ total_added' = total_added + Cardinality(add)
                              ELSE UNCHANGED <<destShare, updated,
                                               total_changed, total_added>>
    /\ UNCHANGED <<sh_pc, apply, destSections, srcShare, run, updatedPrev,
                   current_titles, desired_titles, final_titles, to_add>>
    /\ ShareFrame

\* The loop is over: the summary is printed (lines 381-385).
MainSummary ==
    /\ sh_pc = "users" /\ ui > NUsers
    /\ sh_pc' = "done"
    /\ UNCHANGED <<apply, destSections, srcShare, destShare, ui, run,
                   total_changed, total_added, current_titles, desired_titles,
                   final_titles, to_add, lastUpdate, planned, called, updated,
                   updatedPrev, readFailed>>
    /\ ShareFrame

\* The operator runs the script again, against the servers as they are now.
ShareRerun ==
    /\ sh_pc = "done" /\ run < MaxRuns
    /\ sh_pc' = "users" /\ run' = run + 1 /\ ui' = 1
    /\ total_changed' = 0 /\ total_added' = 0
    /\ planned' = [u \in Users |-> {}]
    /\ called' = {} /\ updated' = {} /\ updatedPrev' = updated
    /\ lastUpdate' = NoUpdate
    /\ UNCHANGED <<apply, destSections, srcShare, destShare, current_titles,
                   desired_titles, final_titles, to_add, readFailed>>
    /\ ShareFrame

ShareNext ==
    \/ \E srcOk, dstOk, updOk \in BOOLEAN : MainUser(srcOk, dstOk, updOk)
    \/ MainSummary
    \/ ShareRerun

SpecShare == ShareInit /\ [][ShareNext]_vars

\* ---- the reconciler alone, on arbitrary inputs ----
ReconcileInit ==
    /\ MatchIdle /\ CpbIdle /\ MpIdle /\ DedupeIdle /\ McIdle /\ SmIdle /\ IxIdle /\ FsIdle /\ LaIdle /\ ExIdle /\ DpIdle /\ CoIdle
    /\ sh_pc = "reconcile"
    /\ destSections \in DestCatalogs
    /\ apply = FALSE /\ srcShare = <<>> /\ destShare = <<>> /\ ui = 0 /\ run = 0
    /\ total_changed = 0 /\ total_added = 0
    /\ current_titles = {} /\ desired_titles = {} /\ final_titles = {}
    /\ to_add = {} /\ lastUpdate = NoUpdate /\ planned = <<>>
    /\ called = {} /\ updated = {} /\ updatedPrev = {} /\ readFailed = {}

\* Lines 239-246 of ensure_union_share_on_destination on a current set and a
\* desired set of titles.
Reconcile(current, desired) ==
    /\ sh_pc = "reconcile"
    /\ sh_pc' = "reconciled"
    /\ current_titles' = current
    /\ desired_titles' = desired
    /\ final_titles' = FinalTitles(current, desired, sections_by_title(destSections))
    /\ to_add' = ToAdd(final_titles', current)
    /\ UNCHANGED <<apply, destSections, srcShare, destShare, ui, run,
                   total_changed, total_added, lastUpdate, planned, called,
                   updated, updatedPrev, readFailed>>
    /\ ShareFrame

ReconcileNext ==
    \E current, desired \in SUBSET Titles : Reconcile(current, desired)

SpecReconcile == ReconcileInit /\ [][ReconcileNext]_vars

\* ------------------------------------------------- index and matcher
\* Identifiers (provider GUIDs) are strings, modelled as sequences of
\* characters.
Lower(c) == CASE c = "X" -> "x" [] c = "Y" -> "y" [] OTHER -> c

\* str.lower()
lower(g) == [i \in DOMAIN g |-> Lower(g[i])]

RECURSIVE lstrip(_)
lstrip(g) == IF g # <<>> /\ Head(g) = " " THEN lstrip(Tail(g)) ELSE g

RECURSIVE rstrip(_)
rstrip(g) ==
    IF g # <<>> /\ g[Len(g)] = " " THEN rstrip(SubSeq(g, 1, Len(g) - 1)) ELSE g

\* str.strip()
strip(g) == rstrip(lstrip(g))

\* The identifiers a server gives for its items: two spellings of one
\* identifier, two of another (with surrounding whitespace), and the empty one.
RawGuids == { <<"X">>, <<"x", " ">>, <<"Y">>, <<" ", "y">>, <<>> }

\* The identifier lists of an item: up to two different identifiers, in order.
GuidLists ==
    {<<>>} \cup {<<a>> : a \in RawGuids}
           \cup {p \in RawGuids \X RawGuids : p[1] # p[2]}

\* collect_guids: every identifier that is not empty, stripped, in order.
RECURSIVE collect_guids(_)
collect_guids(raw) ==
    IF raw = <<>> THEN <<>>
    ELSE IF Head(raw) # <<>> THEN <<strip(Head(raw))>> \o collect_guids(Tail(raw))
    ELSE collect_guids(Tail(raw))

\* by_guid with key k set to item it.
SetKey(idx, k, it) ==
    [x \in DOMAIN idx \cup {k} |-> IF x = k THEN it ELSE idx[x]]

\* An index that stores the identifiers as given, not lower-cased.
index_key_asGiven(gid) == gid

\* The key DestIndex.add_item stores an identifier under (line 107).
index_key(gid) == lower(gid)

\* DestIndex.add_item on by_guid: by_guid[gid.lower()] = it for every identifier.
RECURSIVE add_item(_, _, _)
add_item(idx, gids, it) ==
    IF gids = <<>> THEN idx
    ELSE add_item(SetKey(idx, index_key(Head(gids)), it), Tail(gids), it)

\* A matcher that does not stop at the first hit: the last identifier that is a
\* key decides.
RECURSIVE match_guids_noBreak(_, _)
match_guids_noBreak(guids, idx) ==
    IF guids = <<>> THEN None
    ELSE LET rest == match_guids_noBreak(Tail(guids), idx)
         IN  IF rest # None THEN rest
             ELSE IF Head(guids) \in DOMAIN idx THEN idx[Head(guids)] ELSE None

\* The matching loop (lines 548-552, 333-337, 470-474): the item under the first
\* identifier, in order, that by_guid has.
RECURSIVE match_guids(_, _)
match_guids(guids, idx) ==
    IF guids = <<>> THEN None
    ELSE IF Head(guids) \in DOMAIN idx THEN idx[Head(guids)]
    ELSE match_guids(Tail(guids), idx)

\* guids = [g.lower() for g in collect_guids(it)]
source_guids(raw) ==
    LET gs == collect_guids(raw) IN [i \in DOMAIN gs |-> lower(gs[i])]

\* build_destination_index starts with an empty index.
MatchInit ==
    /\ ShareIdle /\ CpbIdle /\ MpIdle /\ DedupeIdle /\ McIdle /\ SmIdle /\ IxIdle /\ FsIdle /\ LaIdle /\ ExIdle /\ DpIdle /\ CoIdle
    /\ m_pc = "index" /\ by_guid = <<>> /\ count_items = 0 /\ registered = {}
    /\ src_guids = <<>> /\ matched = None /\ site = "" /\ added = <<>>
    /\ missing = 0

\* build_destination_index walks one more item (lines 118-124): idx.add_item(it).
\* The item's ratingKey is its position in the walk.
IndexAddItem(raw) ==
    /\ m_pc = "index" /\ count_items < MaxDestItems
    /\ LET it == count_items + 1
       IN  /\ by_guid' = add_item(by_guid, collect_guids(raw), it)
           /\ registered' = registered \cup {<<raw[i], it>> : i \in DOMAIN raw}
    /\ count_items' = count_items + 1
    /\ UNCHANGED <<m_pc, src_guids, matched, site, added, missing>>
    /\ MatchFrame

\* build_destination_index returns the index (line 130).
IndexDone ==
    /\ m_pc = "index"
    /\ m_pc' = "indexed"
    /\ UNCHANGED <<by_guid, count_items, registered, src_guids, matched, site,
                   added, missing>>
    /\ MatchFrame

\* migrate_playlists matches one source item (lines 547-557).
MpMatch(raw) ==
    /\ m_pc = "indexed"
    /\ m_pc' = "matched" /\ site' = "playlists" /\ src_guids' = raw
    /\ matched' = match_guids(source_guids(raw), by_guid)
    /\ added' = IF matched' # None THEN <<matched'>> ELSE <<>>
    /\ missing' = IF matched' # None THEN 0 ELSE 1
    /\ UNCHANGED <<by_guid, count_items, registered>>
    /\ MatchFrame

\* migrate_collections matches one source item (lines 331-345), none seen yet.
McMatch(raw) ==
    /\ m_pc = "indexed"
    /\ m_pc' = "matched" /\ site' = "collections" /\ src_guids' = raw
    /\ matched' = match_guids(source_guids(raw), by_guid)
    /\ added' = IF matched' # None THEN <<matched'>> ELSE <<>>
    /\ missing' = IF matched' # None THEN 0 ELSE 1
    /\ UNCHANGED <<by_guid, count_items, registered>>
    /\ MatchFrame

\* sync_metadata matches one source item (lines 470-476); an unmatched item is
\* passed over, and the loop keeps no list and no count of them.
SmMatch(raw) ==
    /\ m_pc = "indexed"
    /\ m_pc' = "matched" /\ site' = "metadata" /\ src_guids' = raw
    /\ matched' = match_guids(source_guids(raw), by_guid)
    /\ added' = <<>>
    /\ missing' = 0
    /\ UNCHANGED <<by_guid, count_items, registered>>
    /\ MatchFrame

MatchNext ==
    \/ \E raw \in GuidLists : IndexAddItem(raw)
    \/ IndexDone
    \/ \E raw \in GuidLists : MpMatch(raw)
    \/ \E raw \in GuidLists : McMatch(raw)
    \/ \E raw \in GuidLists : SmMatch(raw)

SpecMatch == MatchInit /\ [][MatchNext]_vars

\* ------------------------------------- create_playlist_with_batches
\* A chunking that drops the slice left over at the end.
RECURSIVE chunks_fullOnly(_, _)
chunks_fullOnly(l, n) ==
    IF Len(l) < n THEN <<>>
    ELSE <<SubSeq(l, 1, n)>> \o chunks_fullOnly(SubSeq(l, n + 1, Len(l)), n)

\* chunks(lst, n): consecutive slices of at most n elements (lines 169-171).
RECURSIVE chunks(_, _)
chunks(l, n) ==
    IF l = <<>> THEN <<>>
    ELSE IF Len(l) <= n THEN <<l>>
    ELSE <<SubSeq(l, 1, n)>> \o chunks(SubSeq(l, n + 1, Len(l)), n)

\* The elements of a sequence.
Range(q) == {q[i] : i \in DOMAIN q}

\* A server that appends every item it is given.
RECURSIVE ServerAdd_appendAll(_, _, _)
ServerAdd_appendAll(cur, new, dd) == cur \o new

\* What the server appends when the items new are added to a playlist holding
\* cur: all of them, or (dd) only those the playlist does not hold yet.
RECURSIVE ServerAdd(_, _, _)
ServerAdd(cur, new, dd) ==
    IF new = <<>> THEN cur
    ELSE IF dd /\ Head(new) \in Range(cur) THEN ServerAdd(cur, Tail(new), dd)
    ELSE ServerAdd(Append(cur, Head(new)), Tail(new), dd)

\* find_existing_playlist: the first playlist of that title, or None.
find_existing_playlist(pls, nm) ==
    IF \E i \in DOMAIN pls : pls[i].title = nm
    THEN CHOOSE i \in DOMAIN pls :
            pls[i].title = nm /\ \A j \in 1..(i - 1) : pls[j].title # nm
    ELSE None

\* The list without its element at position i.
RemoveAt(q, i) == SubSeq(q, 1, i - 1) \o SubSeq(q, i + 1, Len(q))

\* The playlist at index i with the items new added.
AddTo(pls, i, new, dd) ==
    [pls EXCEPT ![i].items = ServerAdd(pls[i].items, new, dd)]

\* The outcomes a call may have, by the failures still allowed.
BoolOutcomes == IF faults > 0 THEN {TRUE, FALSE} ELSE {TRUE}
AddOutcomes == IF faults > 0 THEN {"ok", "empty", "err"} ELSE {"ok"}
Cost(b) == IF b THEN 0 ELSE 1

\* _coerce_to_media: the items whose fetch succeeded, in order (lines 135-148).
\* fetched: the positions of the list whose fetchItem succeeds.
RECURSIVE _coerce_to_media(_, _, _)
_coerce_to_media(l, fetched, at) ==
    IF l = <<>> THEN <<>>
    ELSE (IF at \in fetched THEN <<Head(l)>> ELSE <<>>)
            \o _coerce_to_media(Tail(l), fetched, at + 1)

\* After an item of the single-item fallback failed or succeeded: the loop goes
\* on; a mutant of it stops the function at a failed item.
after_single_stops(ok, last) ==
    IF ~ok THEN "raised" ELSE IF last THEN "chunk" ELSE "single"

\* Lines 214-220 and 235-241: a failed single add is logged, the loop goes on.
after_single(ok, last) == IF last THEN "chunk" ELSE "single"

\* Lines 173, 179, 225: existing = find_existing_playlist(plex, name), and where
\* the function goes from there. A failure to list the playlists gives None.
CpbFind(listOk) ==
    /\ cpb_pc = "find"
    /\ faults' = faults - Cost(listOk)
    /\ existing' = IF listOk THEN find_existing_playlist(playlists, name) ELSE None
    /\ IF existing' # None /\ replace
       THEN cpb_pc' = "delete" /\ UNCHANGED <<pl, lst, ci>>
       ELSE IF existing' = None
       THEN cpb_pc' = "create" /\ UNCHANGED <<pl, lst, ci>>
       ELSE \* append to existing (line 226)
            cpb_pc' = "chunk" /\ pl' = existing' /\ lst' = items /\ ci' = 1
    /\ UNCHANGED <<playlists, playlists0, dedup, crashes, caller, name, items,
                   replace, batch_size, fi, calls, del_at>>
    /\ CpbFrame

\* Lines 174-177: existing.delete(); existing = None. A failed delete raises.
CpbDelete(ok) ==
    /\ cpb_pc = "delete"
    /\ faults' = faults - Cost(ok)
    /\ del_at' = Len(calls)
    /\ IF ok
       THEN /\ playlists' = RemoveAt(playlists, existing)
            /\ existing' = None
            /\ cpb_pc' = "create"
       ELSE /\ cpb_pc' = "raised"
            /\ UNCHANGED <<playlists, existing>>
    /\ UNCHANGED <<playlists0, dedup, crashes, caller, name, items, replace,
                   batch_size, pl, lst, ci, fi, calls>>
    /\ CpbFrame

\* Lines 179-204: no items raises; else createPlaylist with the seed item. A
\* seed that cannot be fetched leaves createPlaylist without items, which it
\* rejects with "Must include items to add"; that rejection leads to the manual
\* create, any other failure raises.
CpbCreate(fetchOk, outcome) ==
    /\ cpb_pc = "create"
    /\ IF items = <<>>
       THEN /\ cpb_pc' = "raised"
            /\ UNCHANGED <<playlists, faults, pl, lst, ci, calls>>
       ELSE LET seed == SubSeq(items, 1, 1)
                rest == SubSeq(items, 2, Len(items))
                objs == IF fetchOk THEN seed ELSE <<>>
                res == IF objs = <<>> THEN "empty" ELSE outcome
            IN  /\ faults' = faults - Cost(fetchOk /\ outcome = "ok")
                /\ calls' = Append(calls, [op |-> "create", chunk |-> seed,
                                           items |-> objs, res |-> res])
                /\ lst' = rest
                /\ IF res = "ok"
                   THEN /\ playlists' = Append(playlists,
                                               [title |-> name, items |-> objs])
                        /\ pl' = Len(playlists) + 1
                        /\ ci' = 1
                        /\ cpb_pc' = "chunk"
                   ELSE /\ cpb_pc' = IF res = "empty" THEN "manual" ELSE "raised"
                        /\ UNCHANGED <<playlists, pl, ci>>
    /\ UNCHANGED <<playlists0, dedup, crashes, caller, name, items, replace,
                   batch_size, existing, fi, del_at>>
    /\ CpbFrame

\* Lines 189-202: the manual create, a POST of the seed's uri, then
\* find_existing_playlist; the function raises when either fails.
CpbManual(queryOk, listOk) ==
    /\ cpb_pc = "manual"
    /\ faults' = faults - Cost(queryOk /\ listOk)
    /\ LET seed == SubSeq(items, 1, 1)
           made == Append(playlists, [title |-> name, items |-> seed])
       IN  /\ calls' = Append(calls, [op |-> "manual", chunk |-> seed,
                                      items |-> seed,
                                      res |-> IF queryOk THEN "ok" ELSE "err"])
           /\ playlists' = IF queryOk THEN made ELSE playlists
           /\ IF queryOk /\ listOk
              THEN /\ pl' = find_existing_playlist(made, name)
                   /\ ci' = 1
                   /\ cpb_pc' = "chunk"
              ELSE /\ cpb_pc' = "raised"
                   /\ UNCHANGED <<pl, ci>>
    /\ UNCHANGED <<playlists0, dedup, crashes, caller, name, items, replace,
                   batch_size, existing, lst, fi, del_at>>
    /\ CpbFrame

\* An add loop that passes over a chunk whose add failed.
after_add_swallows(outcome) ==
    IF outcome = "empty" THEN "single" ELSE "chunk"

\* Lines 211-213, 221-222 and 232-234, 242-243: where the function goes after
\* the add of a chunk: on with the loop, to the single-item fallback, or out
\* with the exception.
after_add(outcome) ==
    IF outcome = "ok" THEN "chunk"
    ELSE IF outcome = "empty" THEN "single"
    ELSE "raised"

\* Lines 205-213, 221-222 and 226-234, 242-243: the next chunk is coerced and
\* added in one call; the "Must include items to add" rejection starts the
\* single-item fallback, any other failure raises.
CpbAddChunk(fetched, outcome) ==
    /\ cpb_pc = "chunk" /\ ci <= Len(chunks(lst, batch_size))
    /\ LET chunk == chunks(lst, batch_size)[ci]
           chunk_objs == _coerce_to_media(chunk, fetched, 1)
       IN  /\ fetched \subseteq 1..Len(chunk)
           /\ (Len(chunk) - Cardinality(fetched)) + Cost(outcome = "ok") <= faults
           /\ faults' = faults - (Len(chunk) - Cardinality(fetched))
                               - Cost(outcome = "ok")
           /\ calls' = Append(calls, [op |-> "add", chunk |-> chunk,
                                      items |-> chunk_objs, res |-> outcome])
           /\ cpb_pc' = after_add(outcome)
           /\ playlists' = IF outcome = "ok"
                           THEN AddTo(playlists, pl, chunk_objs, dedup)
                           ELSE playlists
           /\ ci' = IF outcome = "empty" \/ cpb_pc' = "raised" THEN ci ELSE ci + 1
           /\ fi' = IF outcome = "empty" THEN 1 ELSE fi
    /\ UNCHANGED <<playlists0, dedup, crashes, caller, name, items, replace,
                   batch_size, existing, pl, lst, del_at>>
    /\ CpbFrame

\* Lines 214-220 and 235-241: one item of the rejected chunk is fetched and
\* added alone; a failure of either is logged and the item skipped.
CpbSingle(fetchOk, addOk) ==
    /\ cpb_pc = "single"
    /\ LET chunk == chunks(lst, batch_size)[ci]
           it == SubSeq(chunk, fi, fi)
           ok == fetchOk /\ addOk
           last == fi = Len(chunk)
       IN  /\ faults' = faults - Cost(ok)
           /\ calls' = Append(calls, [op |-> "single", chunk |-> it,
                                      items |-> IF fetchOk THEN it ELSE <<>>,
                                      res |-> IF ok THEN "ok" ELSE "err"])
           /\ playlists' = IF ok THEN AddTo(playlists, pl, it, dedup)
                           ELSE playlists
           /\ cpb_pc' = after_single(ok, last)
           /\ fi' = IF last THEN 0 ELSE fi + 1
           /\ ci' = IF last THEN ci + 1 ELSE ci
    /\ UNCHANGED <<playlists0, dedup, crashes, caller, name, items, replace,
                   batch_size, existing, pl, lst, del_at>>
    /\ CpbFrame

\* Lines 223 and 244: every chunk was handled, the playlist is returned.
CpbReturn ==
    /\ cpb_pc = "chunk" /\ ci > Len(chunks(lst, batch_size))
    /\ cpb_pc' = "done"
    /\ UNCHANGED <<playlists, playlists0, dedup, faults, crashes, caller, name,
                   items, replace, batch_size, existing, pl, lst, ci, fi, calls,
                   del_at>>
    /\ CpbFrame

\* The item lists the function is called with: the ratingKeys 1..L.
ItemLists == {[i \in 1..L |-> i] : L \in 0..MaxItems}

\* A ratingKey of the destination that no item list of the model holds.
OtherKey == 99

\* The destinations the function runs against: without the playlist, with it
\* (holding another item, or some of the items), and with another playlist.
DestPlaylists ==
    { <<>>,
      << [title |-> "P", items |-> <<OtherKey>>] >>,
      << [title |-> "P", items |-> <<2, 1>>] >>,
      << [title |-> "Q", items |-> <<1>>], [title |-> "P", items |-> <<1, OtherKey>>] >> }

\* create_playlist_with_batches is called.
BatchInit ==
    /\ ShareIdle /\ MatchIdle /\ MpIdle /\ DedupeIdle /\ McIdle /\ SmIdle /\ IxIdle /\ FsIdle /\ LaIdle /\ ExIdle /\ DpIdle /\ CoIdle
    /\ playlists \in DestPlaylists /\ playlists0 = playlists
    /\ dedup \in BOOLEAN
    /\ faults = MaxFaults /\ crashes = 0
    /\ cpb_pc = "find" /\ caller = "top" /\ name = "P"
    /\ items \in ItemLists
    /\ replace \in BOOLEAN
    /\ batch_size \in 1..MaxBatch
    /\ existing = None /\ pl = None /\ lst = <<>> /\ ci = 0 /\ fi = 0
    /\ calls = <<>> /\ del_at = -1

BatchNext ==
    \/ \E listOk \in BoolOutcomes : CpbFind(listOk)
    \/ \E ok \in BoolOutcomes : CpbDelete(ok)
    \/ \E fetchOk \in BoolOutcomes, outcome \in AddOutcomes :
          CpbCreate(fetchOk, outcome)
    \/ \E queryOk, listOk \in BoolOutcomes : CpbManual(queryOk, listOk)
    \/ \E fetched \in SUBSET (1..MaxBatch), outcome \in AddOutcomes :
          CpbAddChunk(fetched, outcome)
    \/ \E fetchOk, addOk \in BoolOutcomes : CpbSingle(fetchOk, addOk)
    \/ CpbReturn

SpecBatch == BatchInit /\ [][BatchNext]_vars

\* The process is interrupted inside create_playlist_with_batches, between two
\* of its remote calls, and the migration is run again: the function is entered
\* anew (line 173) with the same arguments, against the destination as the
\* interrupted run left it.
CpbCrashRerun ==
    /\ cpb_pc \in {"find", "delete", "create", "manual", "chunk", "single"}
    /\ crashes > 0
    /\ crashes' = crashes - 1
    /\ cpb_pc' = "find"
    /\ existing' = None /\ pl' = None /\ lst' = <<>> /\ ci' = 0 /\ fi' = 0
    /\ calls' = Append(calls, [op |-> "crash", chunk |-> <<>>, items |-> <<>>,
                               res |-> "crash"])
    /\ UNCHANGED <<playlists, playlists0, dedup, faults, caller, name, items,
                   replace, batch_size, del_at>>
    /\ CpbFrame

\* create_playlist_with_batches is called with at least one item, no call
\* fails, and the process may be interrupted.
CrashInit ==
    /\ ShareIdle /\ MatchIdle /\ MpIdle /\ DedupeIdle /\ McIdle /\ SmIdle /\ IxIdle /\ FsIdle /\ LaIdle /\ ExIdle /\ DpIdle /\ CoIdle
    /\ playlists \in DestPlaylists /\ playlists0 = playlists
    /\ dedup \in BOOLEAN
    /\ faults = 0 /\ crashes = MaxCrashes
    /\ cpb_pc = "find" /\ caller = "top" /\ name = "P"
    /\ items \in ItemLists \ {<<>>}
    /\ replace \in BOOLEAN
    /\ batch_size \in 1..MaxBatch
    /\ existing = None /\ pl = None /\ lst = <<>> /\ ci = 0 /\ fi = 0
    /\ calls = <<>> /\ del_at = -1

CrashNext ==
    \/ CpbFind(TRUE)
    \/ CpbDelete(TRUE)
    \/ CpbCreate(TRUE, "ok")
    \/ \E fetched \in SUBSET (1..MaxBatch) : CpbAddChunk(fetched, "ok")
    \/ CpbReturn
    \/ CpbCrashRerun

SpecCrash == CrashInit /\ [][CrashNext]_vars

\* ------------------------------------------------------- migrate_playlists
\* The movie and show items of the destination, in the order the index build
\* walks them, each with the identifiers its server gives; the ratingKey of an
\* item is its position.
DestLibrary ==
    << << <<"X">> >>, << <<"Y">>, <<"W">> >>, << <<"V">> >> >>

\* build_destination_index (lines 111-130) over a library: add_item for each
\* item, in walk order.
RECURSIVE build_destination_index(_, _, _)
build_destination_index(lib, k, idx) ==
    IF k > Len(lib) THEN idx
    ELSE build_destination_index(lib, k + 1, add_item(idx, collect_guids(lib[k]), k))

\* idx = build_destination_index(dest) (line 511)
DestIdx == build_destination_index(DestLibrary, 1, <<>>)

\* A matching loop that puts each match in front of the list.
RECURSIVE match_items_newestFirst(_, _)
match_items_newestFirst(src_items, seen_rk) ==
    IF src_items = <<>> THEN <<>>
    ELSE LET it == Head(src_items)
             seen == IF it.rk # None THEN seen_rk \cup {it.rk} ELSE seen_rk
             m == match_guids(source_guids(it.guids), DestIdx)
         IN  IF it.rk # None /\ it.rk \in seen_rk
             THEN match_items_newestFirst(Tail(src_items), seen_rk)
             ELSE match_items_newestFirst(Tail(src_items), seen)
                     \o (IF m # None THEN <<m>> ELSE <<>>)

\* Lines 538-557: the destination items matched for the source items, in source
\* order, a source ratingKey seen before being passed over.
RECURSIVE match_items(_, _)
match_items(src_items, seen_rk) ==
    IF src_items = <<>> THEN <<>>
    ELSE LET it == Head(src_items)
             seen == IF it.rk # None THEN seen_rk \cup {it.rk} ELSE seen_rk
             m == match_guids(source_guids(it.guids), DestIdx)
         IN  IF it.rk # None /\ it.rk \in seen_rk
             THEN match_items(Tail(src_items), seen_rk)
             ELSE (IF m # None THEN <<m>> ELSE <<>>)
                     \o match_items(Tail(src_items), seen)

\* A list that is handed on as it is, repeats included.
dedupe_keys_none(dest_items, seen_keys) == dest_items

\* Lines 564-570: the ratingKeys of the matched items, each once, in order of
\* first occurrence.
RECURSIVE dedupe_keys(_, _)
dedupe_keys(dest_items, seen_keys) ==
    IF dest_items = <<>> THEN <<>>
    ELSE IF Head(dest_items) \in seen_keys
    THEN dedupe_keys(Tail(dest_items), seen_keys)
    ELSE <<Head(dest_items)>>
            \o dedupe_keys(Tail(dest_items), seen_keys \cup {Head(dest_items)})

dest_keys_of(src_items) == dedupe_keys(match_items(src_items, {}), {})

\* migrate_collections, lines 328-345: the destination items matched for the
\* items of a collection, in source order, a destination ratingKey seen before
\* being passed over.
RECURSIVE mc_dest_items(_, _)
mc_dest_items(coll_items, seen) ==
    IF coll_items = <<>> THEN <<>>
    ELSE LET m == match_guids(source_guids(Head(coll_items).guids), DestIdx)
         IN  IF m = None \/ m \in seen
             THEN mc_dest_items(Tail(coll_items), seen)
             ELSE <<m>> \o mc_dest_items(Tail(coll_items), seen \cup {m})

\* rename_template.format(name=name), for the two templates of the model,
\* "{name}" and "{name} (migrated)".
format_name(template, nm) ==
    IF template = "{name}" THEN nm ELSE nm \o " (migrated)"

\* str.lower() of the playlist types of the model.
lower_type(t) == IF t = "Video" THEN "video" ELSE t

\* Source items: matched to destination items 1, 2 and 3, matched to item 1
\* under another spelling of its identifier, and matched to nothing.
SrcA == [rk |-> 11, guids |-> << <<"X">> >>]
SrcB == [rk |-> 12, guids |-> << <<"U">>, <<"y">> >>]
SrcC == [rk |-> 13, guids |-> << <<"V">> >>]
SrcD == [rk |-> 14, guids |-> << <<"x", " ">> >>]
SrcU == [rk |-> 15, guids |-> << <<"U">> >>]

SrcPlaylist(t, sm, ty, its) ==
    [title |-> t, smart |-> sm, ptype |-> ty, items |-> its]

\* The playlists of the source servers of the model.
SrcServers ==
    { << SrcPlaylist("P", FALSE, "video", <<SrcA, SrcB, SrcC>>),
         SrcPlaylist("Q", FALSE, "Video", <<SrcB>>) >>,
      << SrcPlaylist("P", FALSE, "", <<SrcA, SrcU, SrcD, SrcA, SrcB>>),
         SrcPlaylist("Q", FALSE, "video", <<SrcU>>),
         SrcPlaylist("R", FALSE, "video", <<SrcC, SrcA>>) >>,
      << SrcPlaylist("P", TRUE, "video", <<SrcA, SrcB>>),
         SrcPlaylist("Q", FALSE, "audio", <<SrcB>>),
         SrcPlaylist("R", FALSE, "video", <<SrcC, SrcB, SrcA>>) >> }

\* The include, exclude and rename arguments of the model: the defaults, and
\* patterns (by the titles they match) with a template that renames.
Filters ==
    { [include |-> NoPattern, exclude |-> NoPattern, template |-> "{name}"],
      [include |-> Pattern({"P", "Q"}), exclude |-> Pattern({"Q"}),
       template |-> "{name} (migrated)"] }

\* migrate_playlists has listed the source playlists and built the index
\* (lines 505-513).
PlaylistInit ==
    /\ ShareIdle /\ MatchIdle /\ DedupeIdle /\ McIdle /\ SmIdle /\ IxIdle /\ FsIdle /\ LaIdle /\ ExIdle /\ DpIdle /\ CoIdle
    /\ playlists \in DestPlaylists /\ playlists0 = playlists
    /\ dedup \in BOOLEAN
    /\ faults = MaxLoopFaults /\ crashes = 0
    /\ cpb_pc = "idle" /\ caller = "" /\ name = "" /\ items = <<>>
    /\ replace \in BOOLEAN
    /\ batch_size \in 1..MaxBatch
    /\ existing = None /\ pl = None /\ lst = <<>> /\ ci = 0 /\ fi = 0
    /\ calls = <<>> /\ del_at = -1
    /\ mp_pc = "loop"
    /\ srcPlaylists \in SrcServers
    /\ \E f \in Filters :
          /\ include = f.include /\ exclude = f.exclude
          /\ rename_template = f.template
    /\ materialize_smart \in BOOLEAN
    /\ dry_run \in BOOLEAN
    /\ mrun = 1 /\ pli = 1 /\ migrated = 0 /\ outcomes = <<>>

\* Lines 516-583: what the loop does with the playlist p, given whether its
\* items could be read and the destination keys its items matched.
playlist_verdict_noDryRun(p, itemsOk, dest_keys) ==
    IF include.given /\ p.title \notin include.titles THEN "filtered"
    ELSE IF exclude.given /\ p.title \in exclude.titles THEN "filtered"
    ELSE IF p.smart /\ ~materialize_smart THEN "smart"
    ELSE IF p.ptype # ""
            /\ lower_type(p.ptype) \notin {"video", "movie", "show"}
         THEN "nonvideo"
    ELSE IF ~itemsOk THEN "error"
    ELSE IF dest_keys = <<>> THEN "nomatch"
    ELSE "call"

\* A loop that calls the function whatever the number of matched items.
playlist_verdict_noEmptyTest(p, itemsOk, dest_keys) ==
    IF include.given /\ p.title \notin include.titles THEN "filtered"
    ELSE IF exclude.given /\ p.title \in exclude.titles THEN "filtered"
    ELSE IF p.smart /\ ~materialize_smart THEN "smart"
    ELSE IF p.ptype # ""
            /\ lower_type(p.ptype) \notin {"video", "movie", "show"}
         THEN "nonvideo"
    ELSE IF ~itemsOk THEN "error"
    ELSE IF dry_run THEN "dry"
    ELSE "call"

\* A loop that tests dry_run before it looks at the playlist.
playlist_verdict_dryFirst(p, itemsOk, dest_keys) ==
    IF include.given /\ p.title \notin include.titles THEN "filtered"
    ELSE IF exclude.given /\ p.title \in exclude.titles THEN "filtered"
    ELSE IF dry_run THEN "dry"
    ELSE IF p.smart /\ ~materialize_smart THEN "smart"
    ELSE IF p.ptype # ""
            /\ lower_type(p.ptype) \notin {"video", "movie", "show"}
         THEN "nonvideo"
    ELSE IF ~itemsOk THEN "error"
    ELSE IF dest_keys = <<>> THEN "nomatch"
    ELSE "call"

playlist_verdict(p, itemsOk, dest_keys) ==
    IF include.given /\ p.title \notin include.titles THEN "filtered"
    ELSE IF exclude.given /\ p.title \in exclude.titles THEN "filtered"
    ELSE IF p.smart /\ ~materialize_smart THEN "smart"
    ELSE IF p.ptype # ""
            /\ lower_type(p.ptype) \notin {"video", "movie", "show"}
         THEN "nonvideo"
    ELSE IF ~itemsOk THEN "error"
    ELSE IF dry_run THEN "dry"
    ELSE IF dest_keys = <<>> THEN "nomatch"
    ELSE "call"

\* Lines 515, 588-589: the body of the loop is one try block; whatever the
\* outcome of a playlist, an error included, the loop goes on to the next.
after_playlist_reraises(outcome) == IF outcome = "error" THEN "raised" ELSE "loop"

after_playlist(outcome) == "loop"

\* Lines 514-582: the loop takes the next playlist; it is passed over (filters,
\* smart, type, no match), counted without a call (dry run), fails on reading
\* its items, or create_playlist_with_batches is called for it (line 585).
MpPlaylist(itemsOk) ==
    /\ mp_pc = "loop" /\ pli <= Len(srcPlaylists)
    /\ LET p == srcPlaylists[pli]
           dest_keys == dest_keys_of(p.items)
           verdict == playlist_verdict(p, itemsOk, dest_keys)
       IN  /\ itemsOk \/ verdict = "error"
           /\ faults' = faults - Cost(itemsOk)
           /\ IF verdict = "call"
              THEN /\ mp_pc' = "call"
                   /\ cpb_pc' = "find" /\ caller' = "migrate"
                   /\ name' = format_name(rename_template, p.title)
                   /\ items' = dest_keys
                   /\ existing' = None /\ pl' = None /\ lst' = <<>>
                   /\ ci' = 0 /\ fi' = 0 /\ calls' = <<>> /\ del_at' = -1
                   /\ UNCHANGED <<pli, migrated, outcomes>>
              ELSE /\ pli' = pli + 1
                   /\ migrated' = IF verdict = "dry" THEN migrated + 1 ELSE migrated
                   /\ outcomes' = Append(outcomes, verdict)
                   /\ mp_pc' = after_playlist(verdict)
                   /\ UNCHANGED <<cpb_pc, caller, name, items, existing,
                                  pl, lst, ci, fi, calls, del_at>>
    /\ UNCHANGED <<playlists, playlists0, dedup, crashes, replace, batch_size,
                   srcPlaylists, include, exclude, materialize_smart,
                   rename_template, dry_run, mrun>>
    /\ MpFrame

\* Lines 585-589: create_playlist_with_batches returned, and the playlist is
\* counted, or raised, and the error is logged; the loop goes on.
MpReturn ==
    /\ mp_pc = "call" /\ cpb_pc \in {"done", "raised"}
    /\ migrated' = IF cpb_pc = "done" THEN migrated + 1 ELSE migrated
    /\ outcomes' = Append(outcomes, IF cpb_pc = "done" THEN "migrated" ELSE "error")
    /\ pli' = pli + 1
    /\ mp_pc' = after_playlist(IF cpb_pc = "done" THEN "migrated" ELSE "error")
    /\ cpb_pc' = "idle"
    /\ UNCHANGED <<playlists, playlists0, dedup, faults, crashes, caller, name,
                   items, replace, batch_size, existing, pl, lst, ci, fi, calls,
                   del_at, srcPlaylists, include, exclude, materialize_smart,
                   rename_template, dry_run, mrun>>
    /\ MpFrame

\* Line 591: "Done. Migrated N playlists."
MpDone ==
    /\ mp_pc = "loop" /\ pli > Len(srcPlaylists)
    /\ mp_pc' = "done"
    /\ UNCHANGED <<cpbVars, srcPlaylists, include, exclude, materialize_smart,
                   rename_template, dry_run, mrun, pli, migrated, outcomes>>
    /\ MpFrame

\* The migration is run again, with the same arguments, on the same source and
\* the destination as it is.
MpRerun ==
    /\ mp_pc = "done" /\ mrun < MaxRuns
    /\ mrun' = mrun + 1
    /\ mp_pc' = "loop" /\ pli' = 1 /\ migrated' = 0 /\ outcomes' = <<>>
    /\ calls' = <<>> /\ del_at' = -1
    /\ UNCHANGED <<playlists, playlists0, dedup, faults, crashes, cpb_pc, caller,
                   name, items, replace, batch_size, existing, pl, lst, ci, fi,
                   srcPlaylists, include, exclude, materialize_smart,
                   rename_template, dry_run>>
    /\ MpFrame

PlaylistNext ==
    \/ \E itemsOk \in BoolOutcomes : MpPlaylist(itemsOk)
    \/ \E listOk \in BoolOutcomes : CpbFind(listOk)
    \/ \E ok \in BoolOutcomes : CpbDelete(ok)
    \/ \E fetchOk \in BoolOutcomes, outcome \in AddOutcomes :
          CpbCreate(fetchOk, outcome)
    \/ \E queryOk, listOk \in BoolOutcomes : CpbManual(queryOk, listOk)
    \/ \E fetched \in SUBSET (1..MaxBatch), outcome \in AddOutcomes :
          CpbAddChunk(fetched, outcome)
    \/ \E fetchOk, addOk \in BoolOutcomes : CpbSingle(fetchOk, addOk)
    \/ CpbReturn
    \/ MpReturn
    \/ MpDone
    \/ MpRerun

SpecPlaylist == PlaylistInit /\ [][PlaylistNext]_vars

\* ------------------------------------------- matching and deduplication
\* The items of the source servers of the model.
SrcItems == {SrcA, SrcB, SrcC, SrcD, SrcU}

\* The item lists of a source playlist or collection: up to MaxSrcItems items,
\* repeats allowed.
RECURSIVE SrcLists(_)
SrcLists(n) ==
    IF n = 0 THEN {<<>>}
    ELSE SrcLists(n - 1)
            \cup {Append(l, x) : l \in {q \in SrcLists(n - 1) : Len(q) = n - 1},
                                 x \in SrcItems}

\* The items of a source playlist or collection were read (lines 534, 323).
DedupeInit ==
    /\ ShareIdle /\ MatchIdle /\ CpbIdle /\ MpIdle /\ McIdle /\ SmIdle /\ IxIdle /\ FsIdle /\ LaIdle /\ ExIdle /\ DpIdle /\ CoIdle
    /\ d_pc = "read" /\ d_site = "" /\ d_src \in SrcLists(MaxSrcItems)
    /\ handed = <<>>

\* migrate_playlists, lines 538-570: dest_keys.
MpDedupe ==
    /\ d_pc = "read"
    /\ d_pc' = "handed" /\ d_site' = "playlists"
    /\ handed' = dest_keys_of(d_src)
    /\ UNCHANGED d_src
    /\ DedupeFrame

\* migrate_collections, lines 325-345: dest_items.
McDedupe ==
    /\ d_pc = "read"
    /\ d_pc' = "handed" /\ d_site' = "collections"
    /\ handed' = mc_dest_items(d_src, {})
    /\ UNCHANGED d_src
    /\ DedupeFrame

DedupeNext == MpDedupe \/ McDedupe

SpecDedupe == DedupeInit /\ [][DedupeNext]_vars

\* ----------------------------------------------------- migrate_collections
\* s.TYPE.lower() of the section types of the model.
lower_TYPE(t) == IF t = "Movie" THEN "movie" ELSE t

\* The sections of the destination library with the items a search can hit;
\* the items 1, 2 and 3 are those the index holds, item 4 is of another type.
DestSecs ==
    << [type |-> "movie", items |-> {1, 2}],
       [type |-> "show", items |-> {3}],
       [type |-> "artist", items |-> {4}] >>

\* The items of the destination library.
DestItems == UNION {DestSecs[k].items : k \in DOMAIN DestSecs}

\* The destination sections _remove_collection searches (lines 250-252).
SearchedSecs ==
    {k \in DOMAIN DestSecs : lower_TYPE(DestSecs[k].type) \in {"movie", "show"}}

\* The elements of a finite set of numbers, in ascending order.
RECURSIVE Ascending(_)
Ascending(S) ==
    IF S = {} THEN <<>>
    ELSE LET m == CHOOSE x \in S : \A y \in S : x <= y
         IN  <<m>> \o Ascending(S \ {m})

\* hits = s.search(collection=name) in the destination section k (line 254).
Hits(tg, nm, k) == {it \in DestSecs[k].items : <<nm, it>> \in tg}

\* The removal calls _remove_collection issues (lines 250-267): for every
\* searched section whose search works, one for each hit; failItems are the
\* items whose call raises.
RECURSIVE RemoveCalls(_, _, _, _, _)
RemoveCalls(tg, nm, k, failSecs, failItems) ==
    IF k > Len(DestSecs) THEN <<>>
    ELSE (IF k \in SearchedSecs /\ k \notin failSecs
          THEN LET hs == Ascending(Hits(tg, nm, k))
               IN  [i \in DOMAIN hs |->
                       [op |-> "remove", item |-> hs[i], ok |-> hs[i] \notin failItems]]
          ELSE <<>>)
            \o RemoveCalls(tg, nm, k + 1, failSecs, failItems)

\* The addCollection calls _add_collection_to_items issues (lines 271-285).
AddCalls(its, failItems) ==
    [i \in DOMAIN its |-> [op |-> "add", item |-> its[i], ok |-> its[i] \notin failItems]]

\* The items of the calls of a log that succeeded.
Succeeded(log) == {log[i].item : i \in {j \in DOMAIN log : log[j].ok}}

\* The position after the collection at hand: the next collection of the
\* section, or the next section.
NextColl ==
    IF cj < Len(srcSections[si].colls) THEN <<si, cj + 1>> ELSE <<si + 1, 0>>

SrcColl(t, its) == [title |-> t, items |-> its]

\* The sections and collections of the source servers of the model.
SrcCollServers ==
    { << [type |-> "Movie", colls |-> << SrcColl("P", <<SrcA, SrcU, SrcD, SrcB>>),
                                        SrcColl("Q", <<SrcC>>) >>],
         [type |-> "artist", colls |-> << SrcColl("R", <<SrcA>>) >>],
         [type |-> "show", colls |-> << SrcColl("R", <<SrcC, SrcA>>) >>] >>,
      << [type |-> "show", colls |-> <<>>],
         [type |-> "movie", colls |-> << SrcColl("Q", <<SrcU>>),
                                        SrcColl("P", <<SrcB, SrcA>>) >>] >> }

\* The collection tags of the destinations of the model.
DestTags ==
    { {},
      {<<"P", 3>>},
      {<<"P", 1>>, <<"P", 3>>, <<"Q", 2>>},
      {<<"P", 2>>, <<"P", 4>>} }

\* migrate_collections has built the index (lines 298-303).
McInit ==
    /\ ShareIdle /\ MatchIdle /\ CpbIdle /\ MpIdle /\ DedupeIdle /\ SmIdle /\ IxIdle /\ FsIdle /\ LaIdle /\ ExIdle /\ DpIdle /\ CoIdle
    /\ mc_pc = "loop"
    /\ tagged \in DestTags /\ tagged0 = tagged
    /\ srcSections \in SrcCollServers
    /\ c_filter \in Filters
    /\ c_replace \in BOOLEAN /\ c_dry_run \in BOOLEAN
    /\ c_faults = MaxCollFaults
    /\ si = 1 /\ cj = 0
    /\ c_dest_name = "" /\ c_dest_items = <<>> /\ c_migrated = 0
    /\ c_outcomes = <<>> /\ c_writes = <<>>

\* Lines 304-311: the next source section; one of another type is passed over,
\* one whose collections cannot be listed is logged and passed over.
McSection(listOk) ==
    /\ mc_pc = "loop" /\ si <= Len(srcSections) /\ cj = 0
    /\ LET s == srcSections[si]
           walked == lower_TYPE(s.type) \in {"movie", "show"}
       IN  /\ listOk \/ (walked /\ c_faults > 0)
           /\ c_faults' = c_faults - Cost(listOk)
           /\ IF walked /\ listOk /\ s.colls # <<>>
              THEN cj' = 1 /\ si' = si
              ELSE cj' = 0 /\ si' = si + 1
    /\ UNCHANGED <<mc_pc, tagged, tagged0, srcSections, c_filter, c_replace,
                   c_dry_run, c_dest_name, c_dest_items, c_migrated, c_outcomes,
                   c_writes>>
    /\ McFrame

\* Lines 312-358: the next collection of the section: filtered out, failing on
\* the read of its items, counted without a call (dry run), or matched and on
\* its way to the removal (replace) or the add.
McCollection(itemsOk) ==
    /\ mc_pc = "loop" /\ si <= Len(srcSections) /\ cj >= 1
    /\ LET coll == srcSections[si].colls[cj]
           verdict ==
               IF c_filter.include.given /\ coll.title \notin c_filter.include.titles
               THEN "filtered"
               ELSE IF c_filter.exclude.given /\ coll.title \in c_filter.exclude.titles
               THEN "filtered"
               ELSE IF ~itemsOk THEN "error"
               ELSE IF c_dry_run THEN "dry"
               ELSE IF c_replace THEN "remove"
               ELSE "add"
       IN  /\ itemsOk \/ (verdict = "error" /\ c_faults > 0)
           /\ c_faults' = c_faults - Cost(itemsOk)
           /\ c_writes' = <<>>
           /\ IF verdict \in {"filtered", "error"}
              THEN UNCHANGED <<c_dest_name, c_dest_items>>
              ELSE /\ c_dest_name' = format_name(c_filter.template, coll.title)
                   /\ c_dest_items' = mc_dest_items(coll.items, {})
           /\ IF verdict \in {"remove", "add"}
              THEN /\ mc_pc' = verdict
                   /\ UNCHANGED <<si, cj, c_migrated, c_outcomes>>
              ELSE /\ mc_pc' = "loop"
                   /\ si' = NextColl[1] /\ cj' = NextColl[2]
                   /\ c_migrated' = IF verdict = "dry" THEN c_migrated + 1
                                    ELSE c_migrated
                   /\ c_outcomes' = Append(c_outcomes, <<coll.title, verdict>>)
    /\ UNCHANGED <<tagged, tagged0, srcSections, c_filter, c_replace, c_dry_run>>
    /\ McFrame

\* Lines 356-359, _remove_collection (lines 249-268): every hit of every
\* searched section has the tag removed; a failing search or removal is logged
\* and passed over; a failure to list the sections raises out of the function.
McRemove(sectionsOk, failSecs, failItems) ==
    /\ mc_pc = "remove"
    /\ failSecs \subseteq SearchedSecs
    /\ failItems \subseteq {it \in DestItems : \E k \in SearchedSecs \ failSecs :
                                           it \in Hits(tagged, c_dest_name, k)}
    /\ ~sectionsOk => (failSecs = {} /\ failItems = {})
    /\ Cost(sectionsOk) + Cardinality(failSecs) + Cardinality(failItems) <= c_faults
    /\ c_faults' = c_faults - Cost(sectionsOk) - Cardinality(failSecs)
                            - Cardinality(failItems)
    /\ IF sectionsOk
       THEN LET log == RemoveCalls(tagged, c_dest_name, 1, failSecs, failItems)
            IN  /\ c_writes' = c_writes \o log
                /\ tagged' = tagged \ {<<c_dest_name, it>> : it \in Succeeded(log)}
                /\ mc_pc' = "add"
                /\ UNCHANGED <<si, cj, c_outcomes>>
       ELSE /\ mc_pc' = "loop"
            /\ si' = NextColl[1] /\ cj' = NextColl[2]
            /\ c_outcomes' = Append(c_outcomes,
                                    <<srcSections[si].colls[cj].title, "error">>)
            /\ UNCHANGED <<c_writes, tagged>>
    /\ UNCHANGED <<tagged0, srcSections, c_filter, c_replace, c_dry_run,
                   c_dest_name, c_dest_items, c_migrated>>
    /\ McFrame

\* Lines 361-363, _add_collection_to_items (lines 271-285): the tag is added to
\* every item of dest_items; a failing add is logged and passed over; the
\* collection is counted.
McAdd(failItems) ==
    /\ mc_pc = "add"
    /\ failItems \subseteq Range(c_dest_items)
    /\ Cardinality(failItems) <= c_faults
    /\ c_faults' = c_faults - Cardinality(failItems)
    /\ LET log == AddCalls(c_dest_items, failItems)
       IN  /\ c_writes' = c_writes \o log
           /\ tagged' = tagged \cup {<<c_dest_name, it>> : it \in Succeeded(log)}
    /\ c_migrated' = c_migrated + 1
    /\ c_outcomes' = Append(c_outcomes,
                            <<srcSections[si].colls[cj].title, "migrated">>)
    /\ mc_pc' = "loop"
    /\ si' = NextColl[1] /\ cj' = NextColl[2]
    /\ UNCHANGED <<tagged0, srcSections, c_filter, c_replace, c_dry_run,
                   c_dest_name, c_dest_items>>
    /\ McFrame

\* Line 367: "Done. Migrated N collections."
McDone ==
    /\ mc_pc = "loop" /\ si > Len(srcSections)
    /\ mc_pc' = "done"
    /\ UNCHANGED <<tagged, tagged0, srcSections, c_filter, c_replace, c_dry_run,
                   c_faults, si, cj, c_dest_name, c_dest_items, c_migrated,
                   c_outcomes, c_writes>>
    /\ McFrame

McNext ==
    \/ \E listOk \in BOOLEAN : McSection(listOk)
    \/ \E itemsOk \in BOOLEAN : McCollection(itemsOk)
    \/ \E sectionsOk \in BOOLEAN, failSecs \in SUBSET SearchedSecs,
          failItems \in SUBSET DestItems : McRemove(sectionsOk, failSecs, failItems)
    \/ \E failItems \in SUBSET DestItems : McAdd(failItems)
    \/ McDone

SpecCollection == McInit /\ [][McNext]_vars

\* ----------------------------------------------------------- sync_metadata
\* A field value: a string (a sequence of characters), or None.
Val(s) == [has |-> TRUE, s |-> s]
NoVal == [has |-> FALSE, s |-> <<>>]

\* str(v or "")
str_or_empty(v) == IF v.has THEN v.s ELSE <<>>

\* The fields of the model and the values their items hold.
Fields == {"summary", "tagline"}
Meta(su, ta) == [summary |-> su, tagline |-> ta]

\* A comparison of the string forms as they are, blanks included.
_diff_fields_untrimmed(src, dest, fields) ==
    LET keys == SelectSeq(fields,
                          LAMBDA f : str_or_empty(src[f]) # str_or_empty(dest[f]))
    IN  [i \in DOMAIN keys |->
            [field |-> keys[i], sv |-> src[keys[i]], dv |-> dest[keys[i]]]]

\* _diff_fields (lines 381-388): the fields, in the order given, whose trimmed
\* string forms differ, each with the source and the destination value.
_diff_fields(src, dest, fields) ==
    LET keys == SelectSeq(fields,
                          LAMBDA f : strip(str_or_empty(src[f]))
                                        # strip(str_or_empty(dest[f])))
    IN  [i \in DOMAIN keys |->
            [field |-> keys[i], sv |-> src[keys[i]], dv |-> dest[keys[i]]]]

\* dest.edit(**values) on the values of a destination item.
Edited(meta, diffs) ==
    [f \in Fields |->
        IF \E i \in DOMAIN diffs : diffs[i].field = f
        THEN (CHOOSE d \in Range(diffs) : d.field = f).sv
        ELSE meta[f]]

\* An _apply_fields whose locking stops at the first lockField that fails.
ApplyCalls_lockStops(m, diffs, lock, editOk, lockFails) ==
    LET bad == {i \in DOMAIN diffs : diffs[i].field \in lockFails}
        last == IF bad = {} THEN Len(diffs) ELSE CHOOSE i \in bad : \A j \in bad : i <= j
    IN  <<[op |-> "edit", item |-> m, field |-> "", ok |-> editOk]>>
            \o (IF editOk /\ lock
                THEN [i \in 1..last |->
                         [op |-> "lock", item |-> m, field |-> diffs[i].field,
                          ok |-> diffs[i].field \notin lockFails]]
                ELSE <<>>)

\* The calls _apply_fields makes (lines 391-404): one edit, and after an edit
\* that worked and with lock set, one lockField for every edited field.
ApplyCalls(m, diffs, lock, editOk, lockFails) ==
    <<[op |-> "edit", item |-> m, field |-> "", ok |-> editOk]>>
        \o (IF editOk /\ lock
            THEN [i \in DOMAIN diffs |->
                     [op |-> "lock", item |-> m, field |-> diffs[i].field,
                      ok |-> diffs[i].field \notin lockFails]]
            ELSE <<>>)

\* The uploads _copy_artwork makes (lines 407-437): the poster when the source
\* item has one, then the background art when it has one.
ArtworkCalls(m, it, posterOk, artOk) ==
    (IF it.thumb THEN <<[op |-> "poster", item |-> m, field |-> "", ok |-> posterOk]>>
     ELSE <<>>)
        \o (IF it.art THEN <<[op |-> "art", item |-> m, field |-> "", ok |-> artOk]>>
            ELSE <<>>)

\* How many calls of a log failed.
Failed(log) == Cardinality({i \in DOMAIN log : ~log[i].ok})

\* A source item with its title, field values and artwork.
MetaItem(src, t, vals, th, ar) ==
    [rk |-> src.rk, guids |-> src.guids, title |-> t, vals |-> vals,
     thumb |-> th, art |-> ar]

\* The sections of the source servers of the model.
SmServers ==
    { << [type |-> "movie",
          items |-> << MetaItem(SrcA, "P", Meta(Val(<<"a">>), NoVal), TRUE, FALSE),
                       MetaItem(SrcU, "Q", Meta(Val(<<"b">>), NoVal), TRUE, TRUE),
                       MetaItem(SrcB, "Q", Meta(Val(<<" ", "b">>), Val(<<"a">>)),
                                FALSE, TRUE) >>],
         [type |-> "artist",
          items |-> << MetaItem(SrcC, "P", Meta(Val(<<"a">>), NoVal), TRUE, TRUE) >>],
         [type |-> "show",
          items |-> << MetaItem(SrcC, "R", Meta(NoVal, Val(<<>>)), TRUE, TRUE) >>] >>,
      << [type |-> "Movie", items |-> <<>>],
         [type |-> "show",
          items |-> << MetaItem(SrcD, "P", Meta(Val(<<"b">>), Val(<<"b", " ">>)),
                                TRUE, TRUE),
                       MetaItem(SrcC, "P", Meta(Val(<<"a">>), Val(<<"a">>)),
                                FALSE, FALSE) >>] >> }

\* The field values of the destinations of the model, by ratingKey.
DestMetas ==
    { <<Meta(Val(<<"a">>), Val(<<>>)), Meta(Val(<<"b">>), Val(<<"b">>)),
        Meta(Val(<<"a">>), NoVal)>>,
      <<Meta(NoVal, Val(<<"b">>)), Meta(Val(<<"a">>), Val(<<"a", " ">>)),
        Meta(Val(<<"b">>), Val(<<"a">>))>> }

\* The field lists of the model.
FieldLists == { <<"summary", "tagline">>, <<"tagline">> }

\* sync_metadata has built the index and listed the sections (lines 451-456).
SmInit ==
    /\ ShareIdle /\ MatchIdle /\ CpbIdle /\ MpIdle /\ DedupeIdle /\ McIdle /\ IxIdle /\ FsIdle /\ LaIdle /\ ExIdle /\ DpIdle /\ CoIdle
    /\ sm_pc = "loop"
    /\ smSections \in SmServers
    /\ destMeta \in DestMetas /\ destMeta0 = destMeta
    /\ locked = {}
    /\ sm_fields \in FieldLists
    /\ sm_artwork \in BOOLEAN /\ sm_lock \in BOOLEAN
    /\ sm_filter \in Filters
    /\ sm_dry_run \in BOOLEAN
    /\ sm_faults = MaxMetaFaults
    /\ sm_si = 1 /\ sm_ii = 0
    /\ scanned = 0 /\ changed = 0 /\ sm_writes = <<>>

\* Lines 453-458: the next section of type movie or show is enumerated with
\* s.all(); the call is not guarded, a failure raises out of sync_metadata.
SmSection(allOk) ==
    /\ sm_pc = "loop" /\ sm_si <= Len(smSections) /\ sm_ii = 0
    /\ LET s == smSections[sm_si]
           walked == lower_TYPE(s.type) \in {"movie", "show"}
       IN  /\ allOk \/ (walked /\ sm_faults > 0)
           /\ sm_faults' = sm_faults - Cost(allOk)
           /\ IF ~allOk
              THEN sm_pc' = "raised" /\ UNCHANGED <<sm_si, sm_ii>>
              ELSE IF walked /\ s.items # <<>>
              THEN sm_pc' = sm_pc /\ sm_si' = sm_si /\ sm_ii' = 1
              ELSE sm_pc' = sm_pc /\ sm_si' = sm_si + 1 /\ sm_ii' = 0
    /\ UNCHANGED <<smSections, destMeta, destMeta0, locked, sm_fields, sm_artwork,
                   sm_lock, sm_filter, sm_dry_run, scanned, changed, sm_writes>>
    /\ SmFrame

\* Lines 459-487: one item of the section: counted as scanned, passed over when
\* filtered out or unmatched, compared with its match, and, unless this is a
\* dry run, edited where the fields differ (and counted) and given the artwork.
SmItem(editOk, lockFails, posterOk, artOk) ==
    /\ sm_pc = "loop" /\ sm_si <= Len(smSections) /\ sm_ii >= 1
    /\ LET s == smSections[sm_si]
           it == s.items[sm_ii]
           skipped == \/ sm_filter.include.given /\ it.title \notin sm_filter.include.titles
                      \/ sm_filter.exclude.given /\ it.title \in sm_filter.exclude.titles
           m == IF skipped THEN None
                ELSE match_guids(source_guids(it.guids), DestIdx)
           diffs == IF m = None THEN <<>>
                    ELSE _diff_fields(it.vals, destMeta[m], sm_fields)
           writes == IF m = None \/ sm_dry_run THEN <<>>
                     ELSE (IF diffs # <<>>
                           THEN ApplyCalls(m, diffs, sm_lock, editOk, lockFails)
                           ELSE <<>>)
                            \o (IF sm_artwork
                                THEN ArtworkCalls(m, it, posterOk, artOk)
                                ELSE <<>>)
       IN  /\ lockFails \subseteq Fields
           /\ Failed(writes) = Cost(editOk) + Cardinality(lockFails)
                                  + Cost(posterOk) + Cost(artOk)
           /\ Failed(writes) <= sm_faults
           /\ sm_faults' = sm_faults - Failed(writes)
           /\ scanned' = scanned + 1
           /\ sm_writes' = writes
           /\ changed' = IF m # None /\ ~sm_dry_run /\ diffs # <<>>
                         THEN changed + 1 ELSE changed
           /\ destMeta' = IF \E i \in DOMAIN writes :
                                writes[i].op = "edit" /\ writes[i].ok
                          THEN [destMeta EXCEPT ![m] = Edited(destMeta[m], diffs)]
                          ELSE destMeta
           /\ locked' = locked \cup
                 {<<m, writes[i].field>> :
                     i \in {j \in DOMAIN writes : writes[j].op = "lock" /\ writes[j].ok}}
           /\ IF sm_ii < Len(s.items)
              THEN sm_si' = sm_si /\ sm_ii' = sm_ii + 1
              ELSE sm_si' = sm_si + 1 /\ sm_ii' = 0
    /\ UNCHANGED <<sm_pc, smSections, destMeta0, sm_fields, sm_artwork, sm_lock,
                   sm_filter, sm_dry_run>>
    /\ SmFrame

\* Line 488: "Metadata sync complete. Scanned N items. Updated M."
SmDone ==
    /\ sm_pc = "loop" /\ sm_si > Len(smSections)
    /\ sm_pc' = "done"
    /\ UNCHANGED <<smSections, destMeta, destMeta0, locked, sm_fields, sm_artwork,
                   sm_lock, sm_filter, sm_dry_run, sm_faults, sm_si, sm_ii,
                   scanned, changed, sm_writes>>
    /\ SmFrame

SmNext ==
    \/ \E allOk \in BOOLEAN : SmSection(allOk)
    \/ \E editOk, posterOk, artOk \in BOOLEAN, lockFails \in SUBSET Fields :
          SmItem(editOk, lockFails, posterOk, artOk)
    \/ SmDone

SpecMetadata == SmInit /\ [][SmNext]_vars

\* ------------------------------- build_destination_index, section by section
\* A destination item: its ratingKey and the identifiers as the server gives them.
DestItem(rk, guids) == [rk |-> rk, guids |-> guids]

\* A show with its episodes; a section with its TYPE and what s.all() lists:
\* items (movie and other sections) or shows (show sections).
Show(eps) == [episodes |-> eps]
Section(ty, its, shs) == [type |-> ty, items |-> its, shows |-> shs]

\* The sections of the destination of the model: items with identifiers that
\* differ in case or blanks only, a show without episodes, a TYPE with a capital.
IxSectionPool ==
    << Section("Movie", <<DestItem(1, << <<"X">> >>),
                          DestItem(2, << <<"Y">>, <<"W">> >>)>>, <<>>),
       Section("artist", <<DestItem(3, << <<"Z">> >>)>>, <<>>),
       Section("show", <<>>,
               << Show(<<DestItem(4, << <<"V">> >>), DestItem(5, << <<"x">> >>)>>),
                  Show(<<DestItem(6, << <<"U">>, <<" ", "Y">> >>)>>) >>),
       Section("show", <<>>,
               << Show(<<>>),
                  Show(<<DestItem(7, << <<"W">> >>), DestItem(8, <<>>)>>) >>) >>

\* The destination libraries of the model: the sections in any order.
IxLibraries ==
    { [i \in DOMAIN IxSectionPool |-> IxSectionPool[p[i]]] :
         p \in Permutations(DOMAIN IxSectionPool) }

\* idx.add_item for every item of a list, in order (lines 118-119, 122-123).
RECURSIVE add_items(_, _)
add_items(idx, its) ==
    IF its = <<>> THEN idx
    ELSE add_items(add_item(idx, collect_guids(Head(its).guids), Head(its).rk),
                   Tail(its))

\* Whether the build goes on after an enumeration that failed (lines 124-127).
after_enumeration_aborts(ok) == IF ok THEN "walk" ELSE "raised"

after_enumeration(ok) == "walk"

\* Lines 112-113: an empty index, and the sections listed.
IxInit ==
    /\ ShareIdle /\ MatchIdle /\ CpbIdle /\ MpIdle /\ DedupeIdle /\ McIdle /\ SmIdle /\ FsIdle /\ LaIdle /\ ExIdle /\ DpIdle /\ CoIdle
    /\ ix_pc = "walk"
    /\ ixSections \in IxLibraries
    /\ ix_si = 1 /\ ix_hi = 0
    /\ ix_by_guid = <<>> /\ ix_count = 0 /\ ix_failed = {}
    /\ ix_faults = MaxIndexFaults

\* Lines 113-121: the next section; one of another type than movie and show is
\* passed over; s.all() lists a movie section's items, which are all added, or
\* a show section's shows; when s.all() raises the section is left.
IxSection(allOk) ==
    /\ ix_pc = "walk" /\ ix_si <= Len(ixSections) /\ ix_hi = 0
    /\ LET s == ixSections[ix_si]
           walked == lower_TYPE(s.type) \in {"movie", "show"}
       IN  /\ allOk \/ (walked /\ ix_faults > 0)
           /\ ix_faults' = ix_faults - Cost(allOk)
           /\ ix_pc' = after_enumeration(allOk)
           /\ ix_failed' = IF allOk THEN ix_failed ELSE ix_failed \cup {<<ix_si, 0>>}
           /\ IF walked /\ allOk /\ lower_TYPE(s.type) = "movie"
              THEN /\ ix_by_guid' = add_items(ix_by_guid, s.items)
                   /\ ix_count' = ix_count + Len(s.items)
              ELSE UNCHANGED <<ix_by_guid, ix_count>>
           /\ IF walked /\ allOk /\ lower_TYPE(s.type) = "show" /\ s.shows # <<>>
              THEN ix_si' = ix_si /\ ix_hi' = 1
              ELSE ix_si' = ix_si + 1 /\ ix_hi' = 0
    /\ UNCHANGED ixSections
    /\ IxFrame

\* Lines 121-125: the next show of a show section; its episodes are all added,
\* or show.episodes() raises and the show is left with a warning.
IxShow(episodesOk) ==
    /\ ix_pc = "walk" /\ ix_si <= Len(ixSections) /\ ix_hi >= 1
    /\ LET s == ixSections[ix_si]
           show == s.shows[ix_hi]
       IN  /\ episodesOk \/ ix_faults > 0
           /\ ix_faults' = ix_faults - Cost(episodesOk)
           /\ ix_pc' = after_enumeration(episodesOk)
           /\ ix_failed' = IF episodesOk THEN ix_failed
                           ELSE ix_failed \cup {<<ix_si, ix_hi>>}
           /\ IF episodesOk
              THEN /\ ix_by_guid' = add_items(ix_by_guid, show.episodes)
                   /\ ix_count' = ix_count + Len(show.episodes)
              ELSE UNCHANGED <<ix_by_guid, ix_count>>
           /\ IF ix_hi < Len(s.shows)
              THEN ix_si' = ix_si /\ ix_hi' = ix_hi + 1
              ELSE ix_si' = ix_si + 1 /\ ix_hi' = 0
    /\ UNCHANGED ixSections
    /\ IxFrame

\* Lines 128-129: the index is returned.
IxReturn ==
    /\ ix_pc = "walk" /\ ix_si > Len(ixSections)
    /\ ix_pc' = "done"
    /\ UNCHANGED <<ixSections, ix_si, ix_hi, ix_by_guid, ix_count, ix_failed, ix_faults>>
    /\ IxFrame

IxNext ==
    \/ \E allOk \in BOOLEAN : IxSection(allOk)
    \/ \E episodesOk \in BOOLEAN : IxShow(episodesOk)
    \/ IxReturn

SpecIndex == IxInit /\ [][IxNext]_vars

\* ------------------------------------------------ find_sd_in_plex_library
\* str.lower() on the letters of the resolution labels of the model.
LowerLabel(c) ==
    CASE c = "P" -> "p" [] c = "H" -> "h" [] c = "D" -> "d" [] c = "S" -> "s"
      [] c = "K" -> "k" [] OTHER -> c

Digits == {"0", "1", "2", "3", "4", "5", "6", "7", "8", "9"}

DigitVal(c) ==
    CASE c = "0" -> 0 [] c = "1" -> 1 [] c = "2" -> 2 [] c = "3" -> 3 [] c = "4" -> 4
      [] c = "5" -> 5 [] c = "6" -> 6 [] c = "7" -> 7 [] c = "8" -> 8 [] c = "9" -> 9

\* The value of a sequence of digits, left to right.
RECURSIVE DigitsVal(_, _)
DigitsVal(ds, acc) ==
    IF ds = <<>> THEN acc ELSE DigitsVal(Tail(ds), acc * 10 + DigitVal(Head(ds)))

\* int(s) of a string: the blanks around it are dropped and what is left has
\* to be digits; ok tells whether int() returns or raises ValueError.
int_of(s) ==
    LET t == strip(s)
    IN  IF t # <<>> /\ \A i \in DOMAIN t : t[i] \in Digits
        THEN [ok |-> TRUE, n |-> DigitsVal(t, 0)]
        ELSE [ok |-> FALSE, n |-> 0]

\* The table of res_to_height (lines 44-50).
mapping ==
    (<<"4", "k">> :> 2160) @@ (<<"u", "h", "d">> :> 2160)
        @@ (<<"2", "1", "6", "0">> :> 2160) @@ (<<"2", "1", "6", "0", "p">> :> 2160)
        @@ (<<"1", "0", "8", "0">> :> 1080) @@ (<<"1", "0", "8", "0", "p">> :> 1080)
        @@ (<<"f", "h", "d">> :> 1080)
        @@ (<<"7", "2", "0">> :> 720) @@ (<<"7", "2", "0", "p">> :> 720)
        @@ (<<"h", "d">> :> 720)
        @@ (<<"5", "7", "6">> :> 576) @@ (<<"5", "7", "6", "p">> :> 576)
        @@ (<<"4", "8", "0">> :> 480) @@ (<<"4", "8", "0", "p">> :> 480)
        @@ (<<"s", "d">> :> 480)

\* res_to_height (lines 39-56): None for no label, the table's entry for the
\* label in lower case, else the label read as an integer, else None.
res_to_height(res) ==
    IF res = <<>> THEN None
    ELSE LET s == [i \in DOMAIN res |-> LowerLabel(res[i])]
         IN  IF s \in DOMAIN mapping THEN mapping[s]
             ELSE IF int_of(s).ok THEN int_of(s).n
             ELSE None

\* A part of a media version: its file and its streams (streamType 1 is video;
\* height 0 stands for no height).
Stream(ty, h) == [streamType |-> ty, height |-> h]
Part(f, ss) == [file |-> f, streams |-> ss]

\* A media version: its height attribute (an integer, 0 for none, or -1 for a
\* value int() raises on), its videoResolution label and its parts.
Media(h, vr, ps) == [height |-> h, videoResolution |-> vr, parts |-> ps]

\* The streams of the parts of a version, in order.
RECURSIVE streams_of(_)
streams_of(ps) ==
    IF ps = <<>> THEN <<>> ELSE Head(ps).streams \o streams_of(Tail(ps))

\* Lines 74-80: h = max(h or 0, int(s.height)) over the video streams that
\* have a height.
RECURSIVE stream_height(_, _)
stream_height(ss, h) ==
    IF ss = <<>> THEN h
    ELSE LET st == Head(ss)
         IN  stream_height(Tail(ss),
                           IF st.streamType = 1 /\ st.height # 0
                           THEN (IF st.height > h THEN st.height ELSE h)
                           ELSE h)

\* Lines 63-82: the height of one version: its height attribute, else its
\* resolution label, else its video streams; None (0) when none gives one.
media_height(m) ==
    LET h1 == IF m.height > 0 THEN m.height ELSE None
        h2 == IF h1 # None THEN h1 ELSE res_to_height(m.videoResolution)
    IN  IF h2 # None THEN h2 ELSE stream_height(streams_of(m.parts), None)

\* item_max_height (lines 59-87): the greatest of the heights its versions
\* give; None (0) when no version gives one.
RECURSIVE item_max_height(_)
item_max_height(media) ==
    IF media = <<>> THEN None
    ELSE LET h == media_height(Head(media))
             rest == item_max_height(Tail(media))
         IN  IF h > rest THEN h ELSE rest

\* get_item_paths (lines 99-109): the files of all parts of all versions, those
\* without a file left out ("" stands for none).
RECURSIVE get_item_paths(_)
get_item_paths(media) ==
    IF media = <<>> THEN <<>>
    ELSE SelectSeq([i \in DOMAIN Head(media).parts |-> Head(media).parts[i].file],
                   LAMBDA f : f # "")
            \o get_item_paths(Tail(media))

\* A threshold test that takes the threshold itself for SD.
is_sd_inclusive(mh, min_hd_height) == mh <= min_hd_height

\* Lines 129, 158: if mh < min_hd_height.
is_sd(mh, min_hd_height) == mh < min_hd_height

\* Lines 124-143, 153-172: the rows yielded for a list of movies or episodes.
RECURSIVE rows_of(_, _)
rows_of(its, min_hd_height) ==
    IF its = <<>> THEN <<>>
    ELSE LET it == Head(its)
             mh == item_max_height(it.media)
         IN  (IF mh # None /\ is_sd(mh, min_hd_height)
              THEN <<[key |-> it.key, max_height |-> mh,
                      paths |-> get_item_paths(it.media)]>>
              ELSE <<>>)
                \o rows_of(Tail(its), min_hd_height)

\* Lines 283-290: the paths of the rows, in order, each once.
RECURSIVE unique_paths(_, _)
unique_paths(ps, seen) ==
    IF ps = <<>> THEN <<>>
    ELSE IF Head(ps) # "" /\ Head(ps) \notin seen
    THEN <<Head(ps)>> \o unique_paths(Tail(ps), seen \cup {Head(ps)})
    ELSE unique_paths(Tail(ps), seen)

RECURSIVE paths_of_rows(_)
paths_of_rows(rs) ==
    IF rs = <<>> THEN <<>> ELSE Head(rs).paths \o paths_of_rows(Tail(rs))

\* A movie or an episode: its ratingKey and its media versions.
Item(k, media) == [key |-> k, media |-> media]

\* The media versions of the model: a numeric height that goes before the
\* label; heights known from the streams only; a label in capitals; a height
\* int() raises on, with a label that goes before the streams; a label that is
\* a number outside the table, and a part without a file; no height at all.
M480 == Media(480, <<"1", "0", "8", "0">>, <<Part("a", <<>>)>>)
MStream1080 ==
    Media(0, <<>>, <<Part("b", <<Stream(2, 0), Stream(1, 480)>>),
                     Part("c", <<Stream(1, 1080)>>)>>)
M720P == Media(0, <<"7", "2", "0", "P">>, <<Part("d", <<>>)>>)
MBadSd == Media(-1, <<"S", "D">>, <<Part("e", <<Stream(1, 1080)>>)>>)
M360 == Media(0, <<" ", "3", "6", "0">>, <<Part("", <<>>)>>)
MNone == Media(0, <<"f", "o", "o">>, <<Part("f", <<Stream(1, 0), Stream(3, 0)>>)>>)

\* The items of the model; the items 1 and 2 are two episodes that share the
\* file "a", the second with a version of its own.
ScanItems ==
    { Item(1, <<M480>>), Item(2, <<M480, MStream1080>>), Item(3, <<M720P>>),
      Item(4, <<MNone>>), Item(5, <<MBadSd, M360>>), Item(6, <<>>) }

\* The lists of at most MaxScanItems different items.
ItemSeqs ==
    { q \in UNION {[1..n -> ScanItems] : n \in 0..MaxScanItems} :
         \A i, j \in DOMAIN q : i # j => q[i] # q[j] }

\* The sections of the model: a movie section with the items, a show section
\* with the first item in one show and the others in a second, and a section
\* of another type.
FsSections ==
    {Section("movie", q, <<>>) : q \in ItemSeqs}
        \cup {Section("show", <<>>,
                      <<Show(SubSeq(q, 1, 1)), Show(SubSeq(q, 2, Len(q)))>>) :
                 q \in ItemSeqs \ {<<>>}}
        \cup {Section("artist", q, <<>>) : q \in {s \in ItemSeqs : Len(s) = 1}}

Thresholds == {480, 720, 1080}

\* main() has opened the section (line 267) and calls find_sd_items (line 280).
FsInit ==
    /\ ShareIdle /\ MatchIdle /\ CpbIdle /\ MpIdle /\ DedupeIdle /\ McIdle /\ SmIdle /\ LaIdle /\ ExIdle /\ DpIdle /\ CoIdle
    /\ IxIdle
    /\ fs_pc = "scan"
    /\ fsSection \in FsSections
    /\ threshold \in Thresholds
    /\ fs_i = 1 /\ examined = <<>> /\ rows = <<>> /\ out_paths = <<>>
    /\ fs_faults = MaxScanFaults

\* Lines 122-143: the next movie of a movie section.
FsMovie ==
    /\ fs_pc = "scan" /\ fsSection.type = "movie" /\ fs_i <= Len(fsSection.items)
    /\ LET mv == fsSection.items[fs_i]
       IN  /\ examined' = Append(examined, mv)
           /\ rows' = rows \o rows_of(<<mv>>, threshold)
    /\ fs_i' = fs_i + 1
    /\ UNCHANGED <<fs_pc, fsSection, threshold, out_paths, fs_faults>>
    /\ FsFrame

\* Lines 145-172: the next show of a show section: its episodes, or nothing
\* when show.episodes() raises.
FsShow(episodesOk) ==
    /\ fs_pc = "scan" /\ fsSection.type = "show" /\ fs_i <= Len(fsSection.shows)
    /\ episodesOk \/ fs_faults > 0
    /\ fs_faults' = fs_faults - Cost(episodesOk)
    /\ LET eps == fsSection.shows[fs_i].episodes
       IN  IF episodesOk
           THEN /\ examined' = examined \o eps
                /\ rows' = rows \o rows_of(eps, threshold)
           ELSE UNCHANGED <<examined, rows>>
    /\ fs_i' = fs_i + 1
    /\ UNCHANGED <<fs_pc, fsSection, threshold, out_paths>>
    /\ FsFrame

\* Lines 173-174, 280: the generator is exhausted, at once for a section of
\* another type; main() holds the rows.
FsScanned ==
    /\ fs_pc = "scan"
    /\ \/ fsSection.type \notin {"movie", "show"}
       \/ fsSection.type = "movie" /\ fs_i > Len(fsSection.items)
       \/ fsSection.type = "show" /\ fs_i > Len(fsSection.shows)
    /\ fs_pc' = "rows"
    /\ UNCHANGED <<fsSection, threshold, fs_i, examined, rows, out_paths, fs_faults>>
    /\ FsFrame

\* Lines 283-290: main() builds the list of paths, the list --delete and
\* --delete-no-confirm hand to delete_paths (line 298).
FsPaths ==
    /\ fs_pc = "rows"
    /\ out_paths' = unique_paths(paths_of_rows(rows), {})
    /\ fs_pc' = "listed"
    /\ UNCHANGED <<fsSection, threshold, fs_i, examined, rows, fs_faults>>
    /\ FsFrame

FsNext ==
    \/ FsMovie
    \/ \E episodesOk \in BOOLEAN : FsShow(episodesOk)
    \/ FsScanned
    \/ FsPaths

SpecScan == FsInit /\ [][FsNext]_vars

\* ------------------------------------------------------------ load_account
\* for attempt in range(1, 3 + 1) (lines 91, 111)
MfaAttempts == 3

\* What a sign-in (_try_create_account, lines 39-60, or MyPlexAccount(token=))
\* ends with: an account, Unauthorized with or without a hint at a second
\* factor in its message, another BadRequest, or any other exception.
SignInOutcomes == {"ok", "unauthorized_hint", "unauthorized", "badrequest", "other"}

\* What getpass gives at a prompt: a code, nothing but blanks, or EOFError.
PromptEntries == {"code", "empty", "eof"}

\* Whether the handler of the loop of prompts catches the outcome of a sign-in
\* (lines 98-105: Unauthorized and BadRequest; lines 118-120: every Exception).
caught_none(branch, outcome) == FALSE

caught(branch, outcome) ==
    IF branch = "badrequest" THEN TRUE
    ELSE outcome \in {"unauthorized_hint", "unauthorized", "badrequest"}

\* load_account is called (line 63).
LaInit ==
    /\ ShareIdle /\ MatchIdle /\ CpbIdle /\ MpIdle /\ DedupeIdle /\ McIdle /\ SmIdle /\ ExIdle /\ DpIdle /\ CoIdle
    /\ IxIdle /\ FsIdle
    /\ la_pc = "start"
    /\ la_env \in [token : BOOLEAN, credentials : BOOLEAN, preset_code : BOOLEAN,
                   non_interactive : BOOLEAN]
    /\ la_branch = "" /\ attempt = 0 /\ prompts = 0 /\ la_log = <<>> /\ la_error = ""

\* Lines 64-89, 107-110: the sign-in with the token, or the check of the
\* credentials and the first sign-in with them, and what its failure leads to.
LaStart(outcome) ==
    /\ la_pc = "start"
    /\ IF la_env.token
       THEN /\ outcome \in {"ok", "unauthorized", "other"}
            /\ la_log' = <<outcome>>
            /\ la_pc' = IF outcome = "ok" THEN "returned" ELSE "raised"
            /\ la_error' = IF outcome = "ok" THEN "" ELSE outcome
            /\ UNCHANGED <<la_branch, attempt>>
       ELSE IF ~la_env.credentials
       THEN /\ outcome = "ok"
            /\ la_pc' = "raised" /\ la_error' = "missing_credentials"
            /\ UNCHANGED <<la_branch, attempt, la_log>>
       ELSE /\ la_log' = <<outcome>>
            /\ CASE outcome = "ok" ->
                      /\ la_pc' = "returned"
                      /\ UNCHANGED <<la_branch, attempt, la_error>>
                 [] outcome = "other" ->
                      /\ la_pc' = "raised" /\ la_error' = "other"
                      /\ UNCHANGED <<la_branch, attempt>>
                 [] outcome \in {"unauthorized", "unauthorized_hint"} ->
                      IF outcome = "unauthorized" /\ la_env.preset_code
                      THEN /\ la_pc' = "raised" /\ la_error' = "unauthorized"
                           /\ UNCHANGED <<la_branch, attempt>>
                      ELSE IF la_env.non_interactive
                      THEN /\ la_pc' = "raised" /\ la_error' = "prompts_disabled"
                           /\ UNCHANGED <<la_branch, attempt>>
                      ELSE /\ la_pc' = "prompt" /\ la_branch' = "unauthorized"
                           /\ attempt' = 1 /\ UNCHANGED la_error
                 [] outcome = "badrequest" ->
                      IF la_env.non_interactive
                      THEN /\ la_pc' = "raised" /\ la_error' = "badrequest"
                           /\ UNCHANGED <<la_branch, attempt>>
                      ELSE /\ la_pc' = "prompt" /\ la_branch' = "badrequest"
                           /\ attempt' = 1 /\ UNCHANGED la_error
    /\ UNCHANGED <<la_env, prompts>>
    /\ LaFrame

\* Lines 91-105, 111-120: one pass of the loop of prompts: the prompt, and for
\* an entry that is not empty the sign-in with it.
LaPrompt(entry, outcome) ==
    /\ la_pc = "prompt" /\ attempt <= MfaAttempts
    /\ prompts' = prompts + 1
    /\ IF entry = "eof"
       THEN /\ outcome = "ok"
            /\ la_log' = Append(la_log, entry)
            /\ la_pc' = "raised" /\ la_error' = "eof"
            /\ UNCHANGED attempt
       ELSE IF entry = "empty"
       THEN /\ outcome = "ok"
            /\ la_log' = Append(la_log, entry)
            /\ attempt' = attempt + 1
            /\ UNCHANGED <<la_pc, la_error>>
       ELSE /\ la_log' = la_log \o <<entry, outcome>>
            /\ IF outcome = "ok"
               THEN la_pc' = "returned" /\ UNCHANGED <<attempt, la_error>>
               ELSE IF caught(la_branch, outcome)
               THEN attempt' = attempt + 1 /\ UNCHANGED <<la_pc, la_error>>
               ELSE la_pc' = "raised" /\ la_error' = outcome /\ UNCHANGED attempt
    /\ UNCHANGED <<la_env, la_branch>>
    /\ LaFrame

\* Lines 106, 121: RuntimeError("Failed to authenticate after 3 MFA attempts.")
LaExhausted ==
    /\ la_pc = "prompt" /\ attempt > MfaAttempts
    /\ la_pc' = "raised" /\ la_error' = "mfa_attempts"
    /\ UNCHANGED <<la_env, la_branch, attempt, prompts, la_log>>
    /\ LaFrame

LaNext ==
    \/ \E outcome \in SignInOutcomes : LaStart(outcome)
    \/ \E entry \in PromptEntries, outcome \in SignInOutcomes : LaPrompt(entry, outcome)
    \/ LaExhausted

\* load_account runs on: nothing but what its prompts and sign-ins give stops it.
SpecLogin == LaInit /\ [][LaNext]_vars /\ WF_vars(LaNext)

\* ----------------------------------------------- how the three scripts end
Scripts == {"find_sd", "migrate", "share_sync"}

\* The stages main() goes through, in order: the check of the credentials
\* (load_account for the share sync), the connection, the lookup of the library
\* or of the server resource, the work, and the writing of the file asked for.
Stages(sc) ==
    CASE sc = "find_sd" -> <<"credentials", "connect", "target", "work", "output">>
      [] sc = "migrate" -> <<"credentials", "connect", "work">>
      [] sc = "share_sync" -> <<"credentials", "target", "connect", "work">>

\* The outcome a failure of a stage is: the work has no failure of its own, an
\* exception in it is a fatal error.
FailureOf(stage) ==
    CASE stage = "credentials" -> "missing_credentials"
      [] stage = "connect" -> "connection_failure"
      [] stage = "target" -> "target_not_found"
      [] stage = "output" -> "output_write_failure"
      [] stage = "work" -> "fatal"

\* The exit status of a script for an outcome.
\* find_sd_in_plex_library.py: sys.exit(1) line 247, (2) line 263, (3) line 275,
\*   (4) lines 311, 328, 362; nothing catches an exception or Ctrl-C in main().
\* migrate_plex.py: sys.exit(2) lines 704, 707; the handlers of __main__ give
\*   130 for KeyboardInterrupt (line 764) and 1 for every Exception (line 767),
\*   one raised by connect_plex included.
\* sync_plex_shares_by_library_name.py: sys.exit(1) lines 295, 303, 327;
\*   nothing catches an exception or Ctrl-C in main().
\* An exception nobody catches ends Python with status 1, Ctrl-C nobody
\* catches ends it by SIGINT, which the shell gives as 130.
exit_status(sc, outcome) ==
    CASE outcome = "success" -> 0
      [] outcome = "interrupted" -> 130
      [] outcome = "fatal" -> 1
      [] outcome = "missing_credentials" -> IF sc = "migrate" THEN 2 ELSE 1
      [] outcome = "connection_failure" -> IF sc = "find_sd" THEN 2 ELSE 1
      [] outcome = "target_not_found" -> IF sc = "find_sd" THEN 3 ELSE 1
      [] outcome = "output_write_failure" -> 4

\* A script is started.
ExInit ==
    /\ ShareIdle /\ MatchIdle /\ CpbIdle /\ MpIdle /\ DedupeIdle /\ McIdle /\ SmIdle /\ DpIdle /\ CoIdle
    /\ IxIdle /\ FsIdle /\ LaIdle
    /\ script \in Scripts
    /\ csv \in BOOLEAN /\ (script # "find_sd" => csv = FALSE)
    /\ ex_pc = "credentials" /\ ex_run = 1
    /\ ex_outcome = "" /\ status = 0 /\ exits = {}

\* The stage after a stage of the script, "exited" after the last.
NextStage(sc, stage) ==
    LET st == Stages(sc)
        i == CHOOSE k \in DOMAIN st : st[k] = stage
    IN  IF i < Len(st) THEN st[i + 1] ELSE "exited"

\* The script ends with the outcome.
ExitWith(outcome) ==
    /\ ex_pc' = "exited"
    /\ ex_outcome' = outcome
    /\ status' = exit_status(script, outcome)
    /\ exits' = exits \cup {<<script, outcome, exit_status(script, outcome)>>}

\* A stage of main(): it goes well, it fails in its own way, the user
\* interrupts it, or an exception nobody expects is raised in it.
ExStage(event) ==
    /\ ex_pc \notin {"idle", "exited"}
    /\ CASE event = "ok" ->
              IF NextStage(script, ex_pc) = "exited"
              THEN ExitWith("success")
              ELSE /\ ex_pc' = NextStage(script, ex_pc)
                   /\ UNCHANGED <<ex_outcome, status, exits>>
         [] event = "fail" ->
              /\ ex_pc = "output" => csv
              /\ ExitWith(FailureOf(ex_pc))
         [] event = "interrupt" -> ExitWith("interrupted")
         [] event = "error" -> ExitWith("fatal")
    /\ UNCHANGED <<script, csv, ex_run>>
    /\ ExFrame

\* The script is run again.
ExRerun ==
    /\ ex_pc = "exited" /\ ex_run < MaxExitRuns
    /\ ex_pc' = "credentials" /\ ex_run' = ex_run + 1
    /\ ex_outcome' = "" /\ status' = 0
    /\ UNCHANGED <<script, csv, exits>>
    /\ ExFrame

ExNext ==
    \/ \E event \in {"ok", "fail", "interrupt", "error"} : ExStage(event)
    \/ ExRerun

SpecExit == ExInit /\ [][ExNext]_vars

\* ------------------------------------------- delete_paths of the SD finder
\* find_sd_in_plex_library.py, lines 177-211.  A path is the sequence of its
\* characters; what the user enters at a prompt is the end of input or a line.

\* The paths a list may hold: the empty one, two absolute ones, a relative one.
PathPool == { <<>>, <<"/", "a">>, <<"/", "b">>, <<"a">> }

\* os.path.isabs (POSIX): the path starts with a slash.
isabs(p) == p # <<>> /\ Head(p) = "/"

\* The lines a user may enter.
Lines == { <<"y">>, <<" ", "Y">>, <<"y", "e", "s">>, <<>>, <<"n">>, <<"y", "y">> }

\* What input() meets: the end of input (EOFError) or a line.
Inputs == {[eof |-> TRUE, text |-> <<>>]} \cup {[eof |-> FALSE, text |-> t] : t \in Lines}

\* The mutation of confirm in which an empty answer means yes.
confirm_defaultYes(inp) ==
    IF inp.eof THEN FALSE
    ELSE lower(strip(inp.text)) \in { <<"y">>, <<"y", "e", "s">>, <<>> }

\* Lines 177-183: the answer is stripped and lower-cased; the end of input
\* is a no.
confirm(inp) ==
    IF inp.eof THEN FALSE
    ELSE lower(strip(inp.text)) \in { <<"y">>, <<"y", "e", "s">> }

\* The lists of paths main() may hand over.
PathLists == UNION {[1..n -> PathPool] : n \in 0..MaxPaths}

\* Line 186: delete_paths is called.
DpInit ==
    /\ ShareIdle /\ MatchIdle /\ CpbIdle /\ MpIdle /\ DedupeIdle /\ McIdle /\ SmIdle /\ CoIdle
    /\ IxIdle /\ FsIdle /\ LaIdle /\ ExIdle
    /\ dp_pc = "loop" /\ dp_i = 1
    /\ dp_paths \in PathLists
    /\ no_confirm \in BOOLEAN
    /\ disk0 \in SUBSET (PathPool \ {<<>>})
    /\ disk = disk0
    /\ deleted = 0 /\ asked = {} /\ removed = {}

\* Lines 192-210: one path of the loop.  inp is what the user enters if the
\* prompt is made, removeOk whether os.remove goes through.
DpFile(inp, removeOk) ==
    /\ dp_pc = "loop" /\ dp_i <= Len(dp_paths)
    /\ LET p == dp_paths[dp_i]
           prompted == p # <<>> /\ isabs(p) /\ ~no_confirm
           goesOn == p # <<>> /\ isabs(p) /\ (no_confirm \/ confirm(inp))
           removes == goesOn /\ p \in disk /\ removeOk
       IN  /\ asked' = IF prompted THEN asked \cup {[i |-> dp_i, p |-> p, inp |-> inp]}
                       ELSE asked
           /\ disk' = IF removes THEN disk \ {p} ELSE disk
           /\ deleted' = IF removes THEN deleted + 1 ELSE deleted
           /\ removed' = IF removes THEN removed \cup {[i |-> dp_i, p |-> p]} ELSE removed
    /\ dp_i' = dp_i + 1
    /\ UNCHANGED <<dp_pc, dp_paths, no_confirm, disk0>>
    /\ DpFrame

\* Line 211: the count is returned.
DpReturn ==
    /\ dp_pc = "loop" /\ dp_i > Len(dp_paths)
    /\ dp_pc' = "returned"
    /\ UNCHANGED <<dp_paths, no_confirm, dp_i, disk0, disk, deleted, asked, removed>>
    /\ DpFrame

DpNext ==
    \/ \E inp \in Inputs, removeOk \in BOOLEAN : DpFile(inp, removeOk)
    \/ DpReturn

SpecDelete == DpInit /\ [][DpNext]_vars

\* ------------------------------- _coerce_to_media over items of any shape
\* migrate_plex.py, lines 135-148.  An item of the list is a media object (it
\* has _server), an integer, a string, or something else; the operator
\* _coerce_to_media of the batch model is this function over lists of integer
\* ratingKeys.
MediaObj(k, from) == [shape |-> "media", rk |-> k, text |-> <<>>, origin |-> from]
IntItem(k) == [shape |-> "int", rk |-> k, text |-> <<>>, origin |-> "given"]
StrItem(t) == [shape |-> "str", rk |-> None, text |-> t, origin |-> "given"]
OtherItem == [shape |-> "other", rk |-> None, text |-> <<>>, origin |-> "given"]

\* str.isdigit(): the string is not empty and all its characters are digits.
isdigit(t) == t # <<>> /\ \A i \in DOMAIN t : t[i] \in Digits

\* plex.fetchItem(f"/library/metadata/{it}"): the media object whose ratingKey
\* is the number written in the path.
fetchItem(it) ==
    MediaObj(IF it.shape = "int" THEN it.rk ELSE DigitsVal(it.text, 0), "fetched")

\* A loop body that fetches integers only.
coerce_intsOnly(it, fetchOk) ==
    IF it.shape = "media" THEN [out |-> <<it>>, warned |-> FALSE, failed |-> FALSE]
    ELSE IF it.shape = "int"
    THEN IF fetchOk
         THEN [out |-> <<fetchItem(it)>>, warned |-> FALSE, failed |-> FALSE]
         ELSE [out |-> <<>>, warned |-> TRUE, failed |-> TRUE]
    ELSE [out |-> <<>>, warned |-> TRUE, failed |-> FALSE]

\* Lines 138-147, the body of the loop for one item: what is appended to out,
\* whether a warning is printed, and whether fetchItem raised.
coerce(it, fetchOk) ==
    IF it.shape = "media" THEN [out |-> <<it>>, warned |-> FALSE, failed |-> FALSE]
    ELSE IF it.shape = "int" \/ (it.shape = "str" /\ isdigit(it.text))
    THEN IF fetchOk
         THEN [out |-> <<fetchItem(it)>>, warned |-> FALSE, failed |-> FALSE]
         ELSE [out |-> <<>>, warned |-> TRUE, failed |-> TRUE]
    ELSE [out |-> <<>>, warned |-> TRUE, failed |-> FALSE]

\* The items a list may hold: the three of the self test (lines 631-634), a
\* second media object, a string that is no number, the empty string, and
\* something that is none of these.
CoercePool ==
    { IntItem(1), StrItem(<<"2">>), MediaObj(3, "given"), MediaObj(1, "given"),
      StrItem(<<"1", "2">>), StrItem(<<"a">>), StrItem(<<>>), OtherItem }

CoerceLists == UNION {[1..n -> CoercePool] : n \in 0..MaxCoerce}

\* Line 136: _coerce_to_media is called.
CoInit ==
    /\ ShareIdle /\ MatchIdle /\ CpbIdle /\ MpIdle /\ DedupeIdle /\ McIdle /\ SmIdle
    /\ IxIdle /\ FsIdle /\ LaIdle /\ ExIdle /\ DpIdle
    /\ co_pc = "loop" /\ co_i = 1
    /\ co_items \in CoerceLists
    /\ co_out = <<>> /\ co_warnings = 0 /\ co_failed = {}

\* Lines 137-147: one item of the loop; fetchOk tells whether fetchItem, if
\* called, returns.
CoItem(fetchOk) ==
    /\ co_pc = "loop" /\ co_i <= Len(co_items)
    /\ LET r == coerce(co_items[co_i], fetchOk)
       IN  /\ fetchOk \/ r.failed
           /\ co_out' = co_out \o r.out
           /\ co_warnings' = co_warnings + (IF r.warned THEN 1 ELSE 0)
           /\ co_failed' = IF r.failed THEN co_failed \cup {co_i} ELSE co_failed
    /\ co_i' = co_i + 1
    /\ UNCHANGED <<co_pc, co_items>>
    /\ CoFrame

\* Line 148: out is returned.
CoReturn ==
    /\ co_pc = "loop" /\ co_i > Len(co_items)
    /\ co_pc' = "returned"
    /\ UNCHANGED <<co_items, co_i, co_out, co_warnings, co_failed>>
    /\ CoFrame

CoNext ==
    \/ \E fetchOk \in BOOLEAN : CoItem(fetchOk)
    \/ CoReturn

SpecCoerce == CoInit /\ [][CoNext]_vars

\* ------------------------------------------------ one run of any of the tools
\* The share sync with every user holding the same shares on a server at the
\* start (the users differ in the failures that hit them).
ToolsShareInit ==
    /\ ShareInit
    /\ \A u \in Users : srcShare[u] = srcShare[1] /\ destShare[u] = destShare[1]

\* A single run of one of the four loops: the users of the share sync, the
\* playlists, the collections, or the metadata of the migration tool.
ToolsInit == ToolsShareInit \/ PlaylistInit \/ McInit \/ SmInit

ToolsNext ==
    \/ \E srcOk, dstOk, updOk \in BOOLEAN : MainUser(srcOk, dstOk, updOk)
    \/ MainSummary
    \/ \E itemsOk \in BoolOutcomes : MpPlaylist(itemsOk)
    \/ \E listOk \in BoolOutcomes : CpbFind(listOk)
    \/ \E ok \in BoolOutcomes : CpbDelete(ok)
    \/ \E fetchOk \in BoolOutcomes, outcome \in AddOutcomes :
          CpbCreate(fetchOk, outcome)
    \/ \E queryOk, listOk \in BoolOutcomes : CpbManual(queryOk, listOk)
    \/ \E fetched \in SUBSET (1..MaxBatch), outcome \in AddOutcomes :
          CpbAddChunk(fetched, outcome)
    \/ \E fetchOk, addOk \in BoolOutcomes : CpbSingle(fetchOk, addOk)
    \/ CpbReturn
    \/ MpReturn
    \/ MpDone
    \/ \E listOk \in BOOLEAN : McSection(listOk)
    \/ \E itemsOk \in BOOLEAN : McCollection(itemsOk)
    \/ \E sectionsOk \in BOOLEAN, failSecs \in SUBSET SearchedSecs,
          failItems \in SUBSET DestItems : McRemove(sectionsOk, failSecs, failItems)
    \/ \E failItems \in SUBSET DestItems : McAdd(failItems)
    \/ McDone
    \/ \E allOk \in BOOLEAN : SmSection(allOk)
    \/ \E editOk, posterOk, artOk \in BOOLEAN, lockFails \in SUBSET Fields :
          SmItem(editOk, lockFails, posterOk, artOk)
    \/ SmDone

SpecTools == ToolsInit /\ [][ToolsNext]_vars

\* The tool that runs keeps running: main() calls each loop and nothing but an
\* exception stops a loop before its end.
SpecToolsFair == ToolsInit /\ [][ToolsNext]_vars /\ WF_vars(ToolsNext)

\* ------------------------------------------------------------ claims C1-C3

\* C1: in apply mode, the section list of every updateFriend call holds a
\* destination section for every library the user had shared on the
\* destination before the call.
C1_NeverRemovesAccess ==
    lastUpdate.user # 0 => lastUpdate.before \subseteq lastUpdate.sent

\* C2: the reconciler yields finalSet = current \cup {d \in desired : casefold(d)
\* is the casefolded title of a destination library}, so finalSet contains
\* current, and toAdd = finalSet \ current exactly.
C2_ReconcileUnion ==
    sh_pc = "reconciled" =>
        /\ \A t \in Titles :
              t \in final_titles <=>
                 \/ t \in current_titles
                 \/ /\ t \in desired_titles
                    /\ \E i \in DOMAIN destSections :
                          casefold(destSections[i]) = casefold(t)
        /\ current_titles \subseteq final_titles
        /\ \A t \in Titles :
              t \in to_add <=> (t \in final_titles /\ t \notin current_titles)

\* C2's case: a desired title that differs from a destination title in case
\* only is added, one that is not on the destination is dropped, and a title
\* both current and desired is not added again.
C2_Witness ==
    /\ sh_pc = "reconciled"
    /\ destSections = <<"Movies", "TV">>
    /\ current_titles = {"TV"}
    /\ desired_titles = {"movies", "Music", "TV"}
    /\ final_titles = {"TV", "movies"}
    /\ to_add = {"movies"}

\* C3: after a run in which updateFriend succeeded for a user, the next run
\* (same source, the destination as the first run left it, no read of the
\* user's shares ever failing) computes an empty to_add for that user and does
\* not call updateFriend for them.
C3_SecondRunAddsNothing ==
    \A u \in Users :
        (run > 1 /\ u \in updatedPrev /\ ui > u /\ u \notin readFailed)
            => (planned[u] = {} /\ u \notin called)

\* ---------------------------------------------------------------- claim C4
\* C4: in a second run without replace (and not a dry run), no call having
\* failed in either run, the calls made for a playlist submit no item to the
\* destination.
C4_SecondRunSubmitsNothing ==
    (mrun >= 2 /\ mp_pc = "call" /\ ~replace /\ faults = MaxLoopFaults) =>
        \A i \in DOMAIN calls : calls[i].items = <<>>

\* ---------------------------------------------------------------- claim C8
\* The playlists counted by the outcomes of a run.
Counted(outs) == Cardinality({k \in DOMAIN outs : outs[k] \in {"migrated", "dry"}})

\* C8: when the add of a chunk fails for another reason than the "Must include
\* items to add" rejection, it is the last call made for the playlist and the
\* function has raised; what the earlier calls added is still in the playlist;
\* migrate_playlists records an error for the playlist, does not count it, and
\* its loop stands at the next playlist.
C8_OtherFailuresPropagate ==
    /\ migrated = Counted(outcomes)
    /\ \A i \in DOMAIN calls :
          (calls[i].op = "add" /\ calls[i].res = "err") =>
             /\ i = Len(calls)
             /\ cpb_pc \in {"raised", "idle"}
             /\ \A j \in 1..(i - 1) :
                   calls[j].res = "ok" =>
                      Range(calls[j].items) \subseteq Range(playlists[pl].items)
             /\ (mp_pc = "call" => cpb_pc = "raised" /\ Len(outcomes) = pli - 1)
             /\ (mp_pc # "call" =>
                   /\ cpb_pc = "idle"
                   /\ \E k \in DOMAIN outcomes :
                         /\ outcomes[k] = "error"
                         /\ format_name(rename_template, srcPlaylists[k].title) = name
                   /\ pli = Len(outcomes) + 1)

\* A playlist was created, a chunk added, the add of the next chunk failed, and
\* the loop is at the next playlist.
C8_Witness ==
    /\ mp_pc = "loop" /\ pli <= Len(srcPlaylists)
    /\ outcomes # <<>> /\ outcomes[Len(outcomes)] = "error"
    /\ Len(calls) >= 3
    /\ calls[1].op = "create" /\ calls[2].op = "add" /\ calls[2].res = "ok"
    /\ calls[Len(calls)].op = "add" /\ calls[Len(calls)].res = "err"
    /\ Len(playlists[pl].items) = 2

\* ---------------------------------------------------------------- claim C5
\* The playlists of a destination that carry the title nm, in listing order.
RECURSIVE Titled(_, _)
Titled(pls, nm) ==
    IF pls = <<>> THEN <<>>
    ELSE (IF Head(pls).title = nm THEN <<Head(pls).items>> ELSE <<>>)
            \o Titled(Tail(pls), nm)

\* What one uninterrupted run leaves in the playlist on a server that ignores
\* the add of an item already present: the new items alone when the playlist
\* is created or replaced, else the old items followed by the new ones the
\* playlist did not hold.
UninterruptedItems ==
    LET e == find_existing_playlist(playlists0, name)
    IN  IF e = None \/ replace THEN items
        ELSE LET old == playlists0[e].items
             IN  old \o SelectSeq(items, LAMBDA x : x \notin Range(old))

\* C5: on a server that ignores the add of an item the playlist already holds
\* and with no call failing, a run that completes, whether it ran through or
\* was interrupted between two remote calls and run again, leaves exactly one
\* playlist of the name, holding the items of one uninterrupted run, in replace
\* and in non-replace mode.
C5_CrashRerunSameResult ==
    (cpb_pc = "done" /\ dedup) =>
        Titled(playlists, name) = <<UninterruptedItems>>

\* An interrupted run had created the playlist and added a chunk; the rerun
\* completed.
C5_Witness ==
    /\ cpb_pc = "done" /\ dedup /\ crashes < MaxCrashes
    /\ \E i \in DOMAIN calls :
          /\ calls[i].op = "crash" /\ i >= 3
          /\ calls[1].op = "create" /\ calls[2].op = "add"
          /\ Len(items) > 1 + Len(calls[2].items)

\* ------------------------------------------------------------ claims C6-C7
CeilDiv(a, b) == (a + b - 1) \div b

\* The items the calls of a log carried, in call order.
RECURSIVE Carried(_)
Carried(log) == IF log = <<>> THEN <<>> ELSE Head(log).items \o Carried(Tail(log))

\* The chunks the add calls of a log were made for, in call order.
RECURSIVE Attempted(_)
Attempted(log) ==
    IF log = <<>> THEN <<>>
    ELSE (IF Head(log).op = "add" THEN Head(log).chunk ELSE <<>>)
            \o Attempted(Tail(log))

\* A run of the function that returned and in which no call and no fetch failed.
CleanReturn == cpb_pc = "done" /\ faults = MaxFaults /\ Len(items) >= 1

\* C6 as stated: a run without failures applies an item sequence of length
\* L >= 1 with batch size n in exactly ceil(L/n) item-carrying calls, each of at
\* most n items, whose items in call order are the original sequence, whether
\* the playlist existed or is created.
C6_CeilCalls ==
    CleanReturn =>
        /\ Len(calls) = CeilDiv(Len(items), batch_size)
        /\ \A i \in DOMAIN calls : Len(calls[i].items) <= batch_size
        /\ Carried(calls) = items

\* C6, amended: a run without failures that appends to an existing playlist
\* makes exactly ceil(L/n) add calls; one that creates the playlist makes one
\* create call carrying the first item alone and then ceil((L-1)/n) add calls.
\* In both cases each call carries at most n items and the items of the calls,
\* in call order, are the original sequence.
C6_SeedThenChunks ==
    CleanReturn =>
        /\ IF existing # None
           THEN /\ Len(calls) = CeilDiv(Len(items), batch_size)
                /\ \A i \in DOMAIN calls : calls[i].op = "add"
           ELSE /\ Len(calls) = 1 + CeilDiv(Len(items) - 1, batch_size)
                /\ calls[1].op = "create" /\ calls[1].items = SubSeq(items, 1, 1)
                /\ \A i \in 2..Len(calls) : calls[i].op = "add"
        /\ \A i \in DOMAIN calls : Len(calls[i].items) <= batch_size
        /\ Carried(calls) = items

C6_Witness ==
    /\ CleanReturn /\ existing = None /\ Len(items) = 4 /\ batch_size = 2
    /\ Len(calls) = 3

\* C7: after a chunk's add is rejected with "Must include items to add", the
\* items of the chunk are each tried alone, in chunk order; a failed single add
\* does not end the function; after the last item the function goes on with
\* the next chunk, so that a run that returns has attempted every chunk; every
\* item whose single add succeeded is in the playlist.
C7_SpuriousEmptyFallback ==
    /\ \A i \in DOMAIN calls :
          (calls[i].op = "add" /\ calls[i].res = "empty") =>
             LET c == calls[i].chunk
                 k == Len(c)
             IN  /\ \A j \in 1..k :
                       i + j <= Len(calls) =>
                          /\ calls[i + j].op = "single"
                          /\ calls[i + j].chunk = SubSeq(c, j, j)
                          /\ (calls[i + j].res = "ok" =>
                                 c[j] \in Range(playlists[pl].items))
                 /\ (Len(calls) < i + k => cpb_pc = "single")
                 /\ (Len(calls) = i + k => cpb_pc \in {"chunk", "done"})
                 /\ (Len(calls) > i + k => calls[i + k + 1].op = "add")
    /\ (cpb_pc = "done" => Attempted(calls) = lst)

C7_Witness ==
    /\ cpb_pc = "done"
    /\ \E i \in DOMAIN calls :
          /\ calls[i].op = "add" /\ calls[i].res = "empty" /\ Len(calls[i].chunk) = 2
          /\ Len(calls) >= i + 3
          /\ calls[i + 1].res = "err" /\ calls[i + 2].res = "ok"
          /\ calls[i + 3].op = "add" /\ calls[i + 3].res = "ok"

\* ----------------------------------------------------------- claims C9-C10
MinOf(S) == CHOOSE x \in S : \A y \in S : x <= y

\* C9: the destination item chosen for a source item is the one the index holds
\* under the first of the item's identifiers, in the item's order, that is a key
\* of the index; when none is a key the item is unmatched: nothing is added for
\* it and the playlist and collection loops count it as missing. The three
\* loops (playlists, collections, metadata) follow the same rule.
C9_FirstIdentifierWins ==
    m_pc = "matched" =>
        LET gs == source_guids(src_guids)
            hits == {i \in DOMAIN gs : gs[i] \in DOMAIN by_guid}
        IN  IF hits = {}
            THEN /\ matched = None
                 /\ added = <<>>
                 /\ site \in {"playlists", "collections"} => missing = 1
            ELSE /\ matched = by_guid[gs[MinOf(hits)]]
                 /\ missing = 0

\* C9's case: both identifiers of the source item are keys, of different
\* destination items, and the item under the first one is chosen.
C9_Witness ==
    /\ m_pc = "matched"
    /\ LET gs == source_guids(src_guids)
       IN  /\ Len(gs) = 2
           /\ gs[1] \in DOMAIN by_guid /\ gs[2] \in DOMAIN by_guid
           /\ by_guid[gs[1]] # by_guid[gs[2]]
           /\ matched = by_guid[gs[1]]

SameLetter(c, d) == c = d \/ {c, d} = {"x", "X"} \/ {c, d} = {"y", "Y"}

\* Two strings are equal ignoring case.
EqualIgnoringCase(a, b) ==
    Len(a) = Len(b) /\ \A i \in DOMAIN a : SameLetter(a[i], b[i])

\* A source identifier and an identifier a destination item is registered under
\* (both not empty) that are equal ignoring case, once stripped.
SameIdentifier(s, d) ==
    s # <<>> /\ d # <<>> /\ EqualIgnoringCase(strip(s), strip(d))

\* C10: matching is exact and case-insensitive: a source item is matched exactly
\* when one of its identifiers equals, ignoring case and surrounding whitespace,
\* an identifier of a destination item, and the item matched is registered under
\* such an identifier; with source identifiers ["X", "Y"] and a destination item
\* registered only under "Y", that item is the match.
C10_CaseInsensitiveExact ==
    m_pc = "matched" =>
        /\ matched # None <=>
              \E i \in DOMAIN src_guids, r \in registered :
                  SameIdentifier(src_guids[i], r[1])
        /\ matched # None =>
              \E i \in DOMAIN src_guids, r \in registered :
                  r[2] = matched /\ SameIdentifier(src_guids[i], r[1])
        /\ \A it \in 1..count_items :
              (src_guids = << <<"X">>, <<"Y">> >> /\ registered = {<< <<"Y">>, it >>})
                  => matched = it

\* C10's case: identifiers ["X", "Y"], the only registered identifier is "Y".
C10_Witness ==
    /\ m_pc = "matched"
    /\ src_guids = << <<"X">>, <<"Y">> >>
    /\ registered = {<< <<"Y">>, 1 >>}
    /\ matched = 1

\* ---------------------------------------------------------------- claim C11
\* The destination items registered under an identifier whose key is k.
ItemsWithKey(k) ==
    {r[2] : r \in {q \in registered : q[1] # <<>> /\ index_key(strip(q[1])) = k}}

\* C11: every key of the index maps to the first item of the walk that exposes
\* an identifier with that key: an item walked later does not take the key over.
C11_FirstSeenWins ==
    \A k \in DOMAIN by_guid : by_guid[k] = MinOf(ItemsWithKey(k))

\* ---------------------------------------------------------------- claim C12
\* The destination items matched for the items of a source list, in source
\* order, one entry for each matched source item.
RECURSIVE MatchedOf(_)
MatchedOf(l) ==
    IF l = <<>> THEN <<>>
    ELSE LET m == match_guids(source_guids(Head(l).guids), DestIdx)
         IN  (IF m # None THEN <<m>> ELSE <<>>) \o MatchedOf(Tail(l))

\* The position of the first occurrence of x in the list l.
FirstPos(l, x) == MinOf({i \in DOMAIN l : l[i] = x})

\* C12: the list handed to the write path, for a playlist and for a collection,
\* holds no ratingKey twice, holds every matched destination item, and orders
\* them by the first occurrence of each among the matched source items.
C12_DedupedFirstOccurrence ==
    d_pc = "handed" =>
        LET M == MatchedOf(d_src)
        IN  /\ \A i, j \in DOMAIN handed : i # j => handed[i] # handed[j]
            /\ Range(handed) = Range(M)
            /\ \A i, j \in DOMAIN handed :
                   i < j => FirstPos(M, handed[i]) < FirstPos(M, handed[j])

\* Three source items, the first and the last matched to the same destination
\* item under two spellings of its identifier: it is handed on once, first.
C12_Witness ==
    /\ d_pc = "handed" /\ d_site = "playlists"
    /\ d_src = <<SrcA, SrcB, SrcD>>
    /\ handed = <<1, 2>>

\* ---------------------------------------------------------------- claim C13
\* The destination held a playlist of the name when the function was called.
ExistedBefore == find_existing_playlist(playlists0, name) # None

\* The items that playlist held.
OldItems == playlists0[find_existing_playlist(playlists0, name)].items

\* C13: when the destination holds a playlist of the name: with replace, a
\* create or add call is made only after the delete, and a run that returns
\* leaves one playlist of the name, holding new items only; without replace,
\* no delete is issued, and a run that returns leaves the old items in the
\* playlist, ahead of what was appended.
C13_ReplaceVsAppend ==
    ExistedBefore =>
        IF replace
        THEN /\ calls # <<>> => del_at = 0
             /\ cpb_pc = "done" =>
                   /\ del_at = 0
                   /\ Len(Titled(playlists, name)) = 1
                   /\ Range(Titled(playlists, name)[1]) \subseteq Range(items)
        ELSE /\ del_at = -1
             /\ cpb_pc = "done" =>
                   LET now == Titled(playlists, name)[1]
                   IN  /\ Len(now) >= Len(OldItems)
                       /\ SubSeq(now, 1, Len(OldItems)) = OldItems

\* ---------------------------------------------------------------- claim C14
\* The destination items that carry the tag of the collection at hand.
TaggedNow == {it \in DestItems : <<c_dest_name, it>> \in tagged}

\* The add of the collection at hand is over.
CollectionStepDone ==
    /\ mc_pc \in {"loop", "done"} /\ c_outcomes # <<>>
    /\ c_outcomes[Len(c_outcomes)][2] = "migrated"

\* C14: in replace mode every removal call precedes every add call, and after
\* the step the items carrying the tag are exactly the items whose add
\* succeeded; without replace no removal call is made and every tag the
\* destination held before the run is still there.
C14_CollectionReplaceVsUnion ==
    LET adds == {i \in DOMAIN c_writes : c_writes[i].op = "add"}
        rems == {i \in DOMAIN c_writes : c_writes[i].op = "remove"}
    IN  IF c_replace
        THEN /\ \A i \in rems, j \in adds : i < j
             /\ CollectionStepDone =>
                   TaggedNow = {c_writes[j].item : j \in {a \in adds : c_writes[a].ok}}
        ELSE /\ rems = {}
             /\ tagged0 \subseteq tagged

\* ---------------------------------------------------------------- claim C15
\* No mutating call has been issued by the tool that runs in dry-run mode.
NoCallIssued ==
    /\ (sh_pc # "idle" /\ ~apply) =>
          called = {} /\ updated = {} /\ lastUpdate = NoUpdate
    /\ (mp_pc # "idle" /\ dry_run) =>
          calls = <<>> /\ del_at = -1 /\ cpb_pc = "idle" /\ playlists = playlists0
    /\ (mc_pc # "idle" /\ c_dry_run) => c_writes = <<>> /\ tagged = tagged0
    /\ (sm_pc # "idle" /\ sm_dry_run) =>
          sm_writes = <<>> /\ locked = {} /\ destMeta = destMeta0

\* A step of a tool in dry-run mode leaves the destination as it is.
DestinationKept ==
    /\ (sh_pc # "idle" /\ ~apply) => destShare' = destShare
    /\ (mp_pc # "idle" /\ dry_run) => playlists' = playlists
    /\ (mc_pc # "idle" /\ c_dry_run) => tagged' = tagged
    /\ (sm_pc # "idle" /\ sm_dry_run) => destMeta' = destMeta /\ locked' = locked

\* C15: with the dry-run flag in force (--dry-run, or no --apply for the share
\* sync) no mutating call is ever issued: no playlist delete, create or
\* addItems, no collection tag added or removed, no field edit, lock or artwork
\* upload, no updateFriend; the destination stays as it was.
C15_DryRunChangesNothing == []NoCallIssued /\ [][DestinationKept]_vars

\* A dry run has gone through its whole loop and counted work it would do.
C15_Witness ==
    \/ sh_pc = "done" /\ ~apply /\ total_changed = NUsers
    \/ mp_pc = "done" /\ dry_run /\ migrated = Len(srcPlaylists) /\ migrated > 0

\* ---------------------------------------------------------------- claim C16
\* A step of a loop over users, playlists or collections stays in the loop: it
\* keeps the entity at hand or moves to the one that follows it, and the loop
\* ends only after the last entity.
LoopGoesOn ==
    /\ sh_pc = "users" =>
          /\ sh_pc' \in {"users", "done"} /\ ui' \in {ui, ui + 1}
          /\ sh_pc' = "done" => ui > NUsers
    /\ mp_pc \in {"loop", "call"} =>
          /\ mp_pc' \in {"loop", "call", "done"} /\ pli' \in {pli, pli + 1}
          /\ mp_pc' = "done" => pli > Len(srcPlaylists)
    /\ mc_pc \in {"loop", "remove", "add"} =>
          /\ mc_pc' \in {"loop", "remove", "add", "done"}
          /\ IF si <= Len(srcSections) /\ cj >= 1
             THEN <<si', cj'>> \in {<<si, cj>>, NextColl}
             ELSE si' \in {si, si + 1}
          /\ mc_pc' = "done" => si > Len(srcSections)

\* Every playlist and every user gone through has its outcome or its turn.
AllVisited ==
    /\ mp_pc # "idle" => Len(outcomes) = pli - 1
    /\ mp_pc = "done" => Len(outcomes) = Len(srcPlaylists)
    /\ sh_pc = "done" => ui = NUsers + 1
    /\ mc_pc = "done" => si = Len(srcSections) + 1

\* C16: a failure while one playlist, one collection or one user is processed
\* (a read, a match or a write on the destination that fails) never keeps the
\* loop from the entities that follow; they are visited in order, to the last.
C16_FailureIsolation == []AllVisited /\ [][LoopGoesOn]_vars

\* A playlist failed and the one after it was migrated; or the update of the
\* first user failed and the last user was updated.
C16_Witness ==
    \/ /\ mp_pc = "done"
       /\ \E i \in 1..(Len(outcomes) - 1) :
             outcomes[i] = "error" /\ outcomes[i + 1] = "migrated"
    \/ /\ sh_pc = "done" /\ 1 \in called \ updated /\ NUsers \in updated

\* ---------------------------------------------------------------- claim C17
\* The final summary of the loop that runs has been printed.
SummaryPrinted ==
    sh_pc = "done" \/ mp_pc = "done" \/ mc_pc = "done" \/ sm_pc = "done"

\* C17: every run, once connected to its servers, eventually prints its final
\* summary, whatever fails for a section or an item on the way, the
\* enumeration of a section of sync_metadata included.
C17_SummaryReached == <>SummaryPrinted

\* ---------------------------------------------------------------- claim C18
\* The episodes of the shows of section s, from show h on, whose enumeration
\* did not fail, in walk order.
RECURSIVE EpisodesFrom(_, _)
EpisodesFrom(s, h) ==
    IF h > Len(ixSections[s].shows) THEN <<>>
    ELSE (IF <<s, h>> \in ix_failed THEN <<>> ELSE ixSections[s].shows[h].episodes)
            \o EpisodesFrom(s, h + 1)

\* The items of the movie and show sections, from section s on, whose
\* enumeration did not fail, in walk order.
RECURSIVE Enumerated(_)
Enumerated(s) ==
    IF s > Len(ixSections) THEN <<>>
    ELSE (IF <<s, 0>> \in ix_failed THEN <<>>
          ELSE IF lower_TYPE(ixSections[s].type) = "movie" THEN ixSections[s].items
          ELSE IF lower_TYPE(ixSections[s].type) = "show" THEN EpisodesFrom(s, 1)
          ELSE <<>>)
            \o Enumerated(s + 1)

\* C18: build_destination_index never aborts on a section or a show whose
\* enumeration fails; the index it returns is the index of the items of the
\* movie sections and of the episodes of the shows that could be enumerated:
\* every identifier of every one of them is a key, every entry is one of them,
\* and nothing of a section of another type is in it.
C18_BestEffortIndex ==
    /\ ix_pc \in {"idle", "walk", "done"}
    /\ ix_pc = "done" =>
          LET its == Enumerated(1)
          IN  /\ ix_by_guid = add_items(<<>>, its)
              /\ ix_count = Len(its)
              /\ \A i \in DOMAIN its :
                    \A g \in Range(collect_guids(its[i].guids)) :
                       index_key(g) \in DOMAIN ix_by_guid
              /\ \A k \in DOMAIN ix_by_guid :
                    \E i \in DOMAIN its :
                       /\ ix_by_guid[k] = its[i].rk
                       /\ \E g \in Range(collect_guids(its[i].guids)) : index_key(g) = k

\* The build is over, a section and a show of another section could not be
\* enumerated, and items of a movie section and of a show are in the index.
C18_Witness ==
    /\ ix_pc = "done"
    /\ \E f1, f2 \in ix_failed : f1[2] = 0 /\ f2[2] > 0
    /\ \E s \in DOMAIN ixSections :
          /\ lower_TYPE(ixSections[s].type) = "movie"
          /\ \E i \in DOMAIN ixSections[s].items :
                ixSections[s].items[i].rk \in Range(ix_by_guid)
    /\ \E s \in DOMAIN ixSections :
          /\ lower_TYPE(ixSections[s].type) = "show"
          /\ \E h \in DOMAIN ixSections[s].shows :
                \E e \in DOMAIN ixSections[s].shows[h].episodes :
                   ixSections[s].shows[h].episodes[e].rk \in Range(ix_by_guid)

\* ---------------------------------------------------------------- claim C19
\* The ratingKeys of a list of items or rows, in order.
KeysOf(l) == [i \in DOMAIN l |-> l[i].key]

\* The items examined whose greatest height is known and below the threshold.
BelowThreshold ==
    SelectSeq(examined,
              LAMBDA it : /\ item_max_height(it.media) # None
                          /\ item_max_height(it.media) < threshold)

\* C19: res_to_height gives 720 for the label "720p"; the rows of find_sd_items
\* are the items examined whose greatest height is strictly below the
\* threshold, in order: one of height 480 is SD under threshold 720, one whose
\* height is the threshold is not.
C19_HeightClassification ==
    /\ res_to_height(<<"7", "2", "0", "p">>) = 720
    /\ fs_pc \in {"rows", "listed"} =>
          /\ KeysOf(rows) = KeysOf(BelowThreshold)
          /\ \A i \in DOMAIN rows : rows[i].max_height < threshold
          /\ \A i \in DOMAIN examined :
                LET mh == item_max_height(examined[i].media)
                IN  /\ (mh = 480 /\ threshold = 720) =>
                          examined[i].key \in Range(KeysOf(rows))
                    /\ mh = threshold => examined[i].key \notin Range(KeysOf(rows))

\* Under threshold 720 a scan has met an item of height 480, which it reports,
\* and an item whose label "720P" gives 720, which it does not.
C19_Witness ==
    /\ fs_pc = "listed" /\ threshold = 720
    /\ \E i, j \in DOMAIN examined :
          /\ item_max_height(examined[i].media) = 480
          /\ examined[i].key \in Range(KeysOf(rows))
          /\ examined[j].media = <<M720P>>
          /\ examined[j].key \notin Range(KeysOf(rows))

\* ---------------------------------------------------------------- claim C20
\* The heights the versions of an item give.
VersionHeights(media) == {media_height(media[i]) : i \in DOMAIN media} \ {None}

\* The files of an item.
FilesOf(media) == Range(get_item_paths(media))

\* C20: item_max_height is the greatest height a version of the item gives; an
\* item with a version at or above the threshold is not reported as SD and
\* none of its files is on the deletion list; an item no version of which
\* gives a height is not reported either.
C20_JudgedByBestVersion ==
    /\ \A it \in ScanItems :
          LET hs == VersionHeights(it.media)
          IN  item_max_height(it.media)
                 = (IF hs = {} THEN None ELSE CHOOSE h \in hs : \A g \in hs : g <= h)
    /\ fs_pc = "listed" =>
          \A i \in DOMAIN examined :
             LET hs == VersionHeights(examined[i].media)
             IN  /\ (\E h \in hs : h >= threshold) =>
                       /\ examined[i].key \notin Range(KeysOf(rows))
                       /\ FilesOf(examined[i].media) \cap Range(out_paths) = {}
                 /\ hs = {} => examined[i].key \notin Range(KeysOf(rows))

\* ---------------------------------------------------------------- claim C21
\* The string form of a value without its leading and trailing blanks: what
\* lies between its first and its last character that is not a blank.
Trimmed(v) ==
    LET t == IF v.has THEN v.s ELSE <<>>
        solid == {i \in DOMAIN t : t[i] # " "}
    IN  IF solid = {} THEN <<>> ELSE SubSeq(t, MinOf(solid), MaxOf(solid))

\* The source items of the sections of the run.
MetaItems ==
    UNION {Range(smSections[i].items) : i \in DOMAIN smSections}

\* C21: for every source item, destination item and field list of the run,
\* _diff_fields has an entry for a field exactly when the trimmed string forms
\* of the two values differ (no value and the empty string alike), the entries
\* follow the field list, and an entry carries the source and the destination
\* value as they are.
C21_FieldDiff ==
    \A it \in MetaItems, m \in DOMAIN destMeta, fs \in FieldLists :
       LET d == _diff_fields(it.vals, destMeta[m], fs)
       IN  /\ \A f \in Range(fs) :
                 (\E i \in DOMAIN d : d[i].field = f)
                    <=> Trimmed(it.vals[f]) # Trimmed(destMeta[m][f])
           /\ \A i \in DOMAIN d :
                 /\ d[i].field \in Range(fs)
                 /\ d[i].sv = it.vals[d[i].field]
                 /\ d[i].dv = destMeta[m][d[i].field]
           /\ \A i, j \in DOMAIN d : i < j => d[i].field # d[j].field

\* For destination item 2 the summary differed from the source's in a leading
\* blank only and was left alone, the tagline differed and was edited.
C21_Witness ==
    /\ sm_fields = <<"summary", "tagline">>
    /\ destMeta0 # <<>> /\ destMeta0[2] = Meta(Val(<<"b">>), Val(<<"b">>))
    /\ destMeta[2] = Meta(Val(<<"b">>), Val(<<"a">>))
    /\ \E it \in MetaItems : it.vals = Meta(Val(<<" ", "b">>), Val(<<"a">>))

\* ---------------------------------------------------------------- claim C22
\* The calls of the log made with the operation op, in order.
CallsOf(log, op) == SelectSeq(log, LAMBDA c : c.op = op)

\* The step of sync_metadata for an item that is matched and whose fields
\* differ, outside dry-run: _apply_fields is called in it.
C22_Step ==
    (sm_pc = "loop" /\ sm_si <= Len(smSections) /\ sm_ii >= 1 /\ scanned' = scanned + 1) =>
       LET it == smSections[sm_si].items[sm_ii]
           m == match_guids(source_guids(it.guids), DestIdx)
           wanted == {f \in Range(sm_fields) : Trimmed(it.vals[f]) # Trimmed(destMeta[m][f])}
           order == SelectSeq(sm_fields, LAMBDA f : f \in wanted)
           edits == CallsOf(sm_writes', "edit")
           locks == CallsOf(sm_writes', "lock")
       IN  (m # None /\ wanted # {} /\ sm_writes' # <<>>) =>
              /\ sm_pc' = "loop"
              /\ Len(edits) = 1 /\ sm_writes'[1].op = "edit" /\ edits[1].item = m
              /\ edits[1].ok =>
                    /\ \A f \in Fields :
                          destMeta'[m][f] = IF f \in wanted THEN it.vals[f]
                                            ELSE destMeta[m][f]
                    /\ sm_lock => [i \in DOMAIN locks |-> locks[i].field] = order
                    /\ ~sm_lock => locks = <<>>
                    /\ locked' = locked \cup
                          {<<m, locks[i].field>> : i \in {j \in DOMAIN locks : locks[j].ok}}
                    /\ (sm_lock /\ \A i \in DOMAIN locks : locks[i].ok) =>
                          \A f \in wanted : <<m, f>> \in locked'
              /\ ~edits[1].ok => locks = <<>> /\ destMeta' = destMeta /\ locked' = locked

LoginOver == la_pc \in {"returned", "raised"}

\* At most three prompts, one for every attempt used, and none without a
\* terminal to ask at.
PromptsBounded ==
    /\ prompts <= MfaAttempts
    /\ la_pc = "prompt" => prompts = attempt - 1
    /\ la_env # <<>> /\ la_env.non_interactive => prompts = 0 /\ la_pc # "prompt"

\* C23 as stated: load_account always terminates; it prompts at most 3 times,
\* an empty entry using up an attempt, and after prompting it returns an
\* account or raises "Failed to authenticate after 3 MFA attempts"; with
\* --non-interactive it never prompts and fails with an error.
C23_BoundedMfaRetry ==
    /\ [](PromptsBounded
          /\ ((la_pc = "raised" /\ prompts > 0) => la_error = "mfa_attempts"))
    /\ <>LoginOver

\* C23, amended: load_account always terminates; it prompts at most 3 times,
\* an empty entry using up an attempt; after prompting it returns an account,
\* raises "Failed to authenticate after 3 MFA attempts" once the three
\* attempts are used up, or passes on the error that ended a prompt (end of
\* input) or, in the loop entered on Unauthorized, a sign-in that failed with
\* neither Unauthorized nor BadRequest; with --non-interactive it never
\* prompts and fails with an error.
C23_BoundedMfaRetryOrError ==
    /\ [](PromptsBounded
          /\ ((la_pc = "raised" /\ prompts > 0) =>
                 /\ la_error \in {"mfa_attempts", "eof", "other"}
                 /\ la_error = "mfa_attempts" => prompts = MfaAttempts
                 /\ la_error = "other" => la_branch = "unauthorized"))
    /\ <>LoginOver

\* Three prompts were made, the first left empty, the others answered with
\* codes that were turned down, and the attempts are used up.
C23_Witness ==
    /\ la_pc = "raised" /\ la_error = "mfa_attempts" /\ prompts = MfaAttempts
    /\ Len(la_log) = 6 /\ la_log[2] = "empty" /\ la_log[3] = "code"

\* ---------------------------------------------------------------- claim C24
\* C24: in each script the outcomes success, missing credentials, connection
\* failure, target not found, output-write failure, interrupted and fatal error
\* end with exit statuses that differ from one outcome to another.
C24_DistinctExitStatus ==
    \A a, b \in exits : (a[1] = b[1] /\ a[2] # b[2]) => a[3] # b[3]

\* ---------------------------------------------------------------- claim C25
\* The answers that are a yes: y or yes, whatever the case and the blanks
\* around.
YesInputs == {[eof |-> FALSE, text |-> t] : t \in { <<"y">>, <<" ", "Y">>, <<"y", "e", "s">> }}

\* C25: delete_paths removes a file only if its path is absolute and either
\* confirmation is suppressed or the user answered y/yes to the prompt for that
\* very file; an empty answer, any other answer or the end of input removes
\* nothing, and the count equals the number of files actually removed.
C25_DeletionGated ==
    /\ \A r \in removed :
          /\ r.p # <<>> /\ r.p[1] = "/"
          /\ no_confirm \/ \E q \in asked : q.i = r.i /\ q.p = r.p /\ q.inp \in YesInputs
    /\ \A q \in asked : q.inp \notin YesInputs => \A r \in removed : r.i # q.i
    /\ disk0 \ disk = {r.p : r \in removed}
    /\ disk \subseteq disk0
    /\ deleted = Cardinality(disk0 \ disk)

\* A list with a file confirmed and removed and a file declined by the end of
\* input, which stays.
C25_Witness ==
    /\ dp_pc = "returned" /\ ~no_confirm /\ deleted = 1
    /\ \E q \in asked : q.inp.eof /\ q.p \in disk
    /\ \E q \in asked : q.inp \in YesInputs /\ q.p \notin disk /\ q.p \in disk0

\* ---------------------------------------------------------------- claim C26
\* The destination items the calls of the function have added so far, in the
\* order of the calls.
RECURSIVE AddedBy(_)
AddedBy(cs) ==
    IF cs = <<>> THEN <<>>
    ELSE (IF Head(cs).res = "ok" THEN Head(cs).items ELSE <<>>) \o AddedBy(Tail(cs))

\* The position, in the source playlist, of the first item matched to the
\* destination item k; 0 if there is none.
FirstOccurrence(src, k) ==
    LET at == {i \in DOMAIN src : match_guids(source_guids(src[i].guids), DestIdx) = k}
    IN  IF at = {} THEN 0 ELSE CHOOSE i \in at : \A j \in at : i <= j

\* C26: for a playlist that is created, the destination items are added in the
\* order of the first occurrences of their matched source items in the source
\* playlist, across the seed, the batches and the single-item fallback, skipped
\* items leaving the order of the rest as it is; the playlist createPlaylist
\* made holds them in that order.
C26_OrderPreserved ==
    (mp_pc = "call" /\ calls # <<>> /\ calls[1].op = "create") =>
        LET src == srcPlaylists[pli].items
            ad == AddedBy(calls)
        IN  /\ \A a \in DOMAIN ad : FirstOccurrence(src, ad[a]) > 0
            /\ \A a, b \in DOMAIN ad :
                  a < b => FirstOccurrence(src, ad[a]) < FirstOccurrence(src, ad[b])
            /\ (calls[1].res = "ok" /\ cpb_pc # "raised") => playlists[pl].items = ad

\* A playlist of three items in an order that is not the order of the keys,
\* created with its seed, the batch of the two others rejected and both added
\* by the single-item fallback.
C26_Witness ==
    /\ mp_pc = "call" /\ cpb_pc = "done"
    /\ Len(calls) = 4 /\ calls[1].op = "create"
    /\ calls[2].op = "add" /\ calls[2].res = "empty"
    /\ calls[3].op = "single" /\ calls[4].op = "single"
    /\ AddedBy(calls) = <<3, 2, 1>>
    /\ playlists[pl].items = <<3, 2, 1>>

\* ---------------------------------------------------------------- claim C27
\* The playlist types that are video playlists, in the spellings of the model.
VideoTypes == {"video", "Video", "movie", "show"}

\* A source playlist the migration has to leave alone: a smart one while
\* materialize_smart is not set, or one whose type is set and is not a video
\* type.
LeftAlone(p) ==
    \/ p.smart /\ ~materialize_smart
    \/ p.ptype # "" /\ p.ptype \notin VideoTypes

\* The loop is at a playlist that has to be left alone.
AtLeftAlone ==
    /\ mp_pc \in {"loop", "call"} /\ pli <= Len(srcPlaylists)
    /\ LeftAlone(srcPlaylists[pli])

\* What a step taken at such a playlist does: no destination playlist is
\* created, deleted or modified, nothing is counted, and the loop is past it.
C27_Step ==
    AtLeftAlone =>
        /\ playlists' = playlists
        /\ migrated' = migrated
        /\ mp_pc' = "loop" /\ pli' = pli + 1
        /\ outcomes'[Len(outcomes')] \in {"filtered", "smart", "nonvideo"}

\* C27: migrate_playlists never creates, deletes or modifies a destination
\* playlist for a source playlist that is smart (unless materialize_smart is
\* set) or whose type is set and is not video/movie/show, and does not count
\* it as migrated, in a dry run as in a real one.
C27_SmartAndNonVideoLeftAlone ==
    /\ [](AtLeftAlone => mp_pc = "loop" /\ cpb_pc = "idle")
    /\ [][C27_Step]_vars

\* A dry run over a smart playlist, an audio playlist and a video playlist:
\* only the last is counted.
C27_Witness ==
    /\ mp_pc = "done" /\ dry_run /\ mrun = 1
    /\ outcomes = <<"smart", "nonvideo", "dry">>
    /\ migrated = 1 /\ playlists = playlists0

\* ---------------------------------------------------------------- claim C28
\* No item of the source playlist is matched to a destination item.
NothingMatched(p) ==
    \A i \in DOMAIN p.items :
        match_guids(source_guids(p.items[i].guids), DestIdx) = None

\* The loop is at a playlist none of whose items matched.
AtNothingMatched ==
    /\ mp_pc \in {"loop", "call"} /\ pli <= Len(srcPlaylists)
    /\ NothingMatched(srcPlaylists[pli])

\* What a step taken at such a playlist does: the destination playlists stay
\* as they are, the loop is past the playlist, and a real run counts nothing.
C28_Step ==
    AtNothingMatched =>
        /\ playlists' = playlists
        /\ mp_pc' = "loop" /\ pli' = pli + 1
        /\ ~dry_run => migrated' = migrated

\* C28: migrate_playlists, in replace mode as without it, never deletes an
\* existing destination playlist when no item of the source playlist matched:
\* the playlist is passed over before create_playlist_with_batches is called,
\* and a real run does not count it as migrated.
C28_NoReplaceOnEmptyMatch ==
    /\ [](AtNothingMatched => mp_pc = "loop" /\ cpb_pc = "idle")
    /\ [][C28_Step]_vars

\* A real run in replace mode over a destination that holds the playlist Q:
\* the source's Q matched nothing, and the destination's Q is as it was.
C28_Witness ==
    /\ mp_pc = "done" /\ ~dry_run /\ replace /\ mrun = 1
    /\ Len(outcomes) = 3 /\ outcomes[2] = "nomatch"
    /\ NothingMatched(srcPlaylists[2])
    /\ find_existing_playlist(playlists0, "Q") # None
    /\ find_existing_playlist(playlists, "Q") # None
    /\ playlists[find_existing_playlist(playlists, "Q")].items = <<1>>
    /\ migrated = 2

\* ---------------------------------------------------------------- claim C29
\* The ratingKey written by a digit string of the model.
NumberOf(t) ==
    CASE t = <<"2">> -> 2
      [] t = <<"1", "2">> -> 12
      [] OTHER -> None

\* An input that can be resolved: a media object, an integer, a digit string.
Resolvable(it) ==
    \/ it.shape \in {"media", "int"}
    \/ it.shape = "str" /\ NumberOf(it.text) # None

\* The ratingKey of a resolvable input.
KeyOfInput(it) == IF it.shape = "str" THEN NumberOf(it.text) ELSE it.rk

\* The positions of the inputs handled so far that are resolvable and whose
\* fetch did not fail.
Kept == {i \in 1..(co_i - 1) : Resolvable(co_items[i]) /\ i \notin co_failed}

\* The j-th position of a set of positions, in increasing order.
NthOf(ps, j) == CHOOSE i \in ps : Cardinality({k \in ps : k < i}) = j - 1

\* The ratingKeys of a list of media objects.
RatingKeys(ms) == [j \in DOMAIN ms |-> ms[j].rk]

\* C29: _coerce_to_media keeps order and never raises: the result holds one
\* media object per resolvable input whose fetch did not fail, in the order of
\* the inputs, media objects as they were given, integers and digit strings as
\* the object fetched by their ratingKey (so [1, "2", media(3)] gives the
\* ratingKeys [1, 2, 3]); every other input is left out with a warning.
C29_CoerceKeepsOrder ==
    /\ co_pc \in {"idle", "loop", "returned"}
    /\ co_pc # "idle" =>
          /\ Len(co_out) = Cardinality(Kept)
          /\ \A j \in DOMAIN co_out :
                LET it == co_items[NthOf(Kept, j)]
                IN  /\ co_out[j].shape = "media"
                    /\ co_out[j].rk = KeyOfInput(it)
                    /\ it.shape = "media" => co_out[j] = it
                    /\ it.shape # "media" => co_out[j].origin = "fetched"
          /\ co_warnings = (co_i - 1) - Cardinality(Kept)
          /\ (co_pc = "returned"
                /\ co_items = <<IntItem(1), StrItem(<<"2">>), MediaObj(3, "given")>>
                /\ co_failed = {}) => RatingKeys(co_out) = <<1, 2, 3>>

\* The list of the self test, the fetch of the integer failing: the digit
\* string and the media object are returned, in that order, the media object
\* as it was given, with one warning.
C29_Witness ==
    /\ co_pc = "returned"
    /\ co_items = <<IntItem(1), StrItem(<<"2">>), MediaObj(3, "given")>>
    /\ co_failed = {1}
    /\ co_out = <<MediaObj(2, "fetched"), MediaObj(3, "given")>>
    /\ co_warnings = 1

====
